---- MODULE Spec2Model ----
(***************************************************************************)
(* Model of the TweaknGeek kernel core: the heap allocator                 *)
(* (src/src/kernel/memory.c), the process scheduler                        *)
(* (src/src/kernel/scheduler.c), the interrupt descriptors and the system  *)
(* calls (src/src/kernel/interrupt.c, src/src/kernel/syscalls.c) and the   *)
(* boot sequence (src/src/kernel/kernel_core.c, src/src/kernel/boot.c).    *)
(*                                                                         *)
(* Addresses are byte addresses.  The heap is modelled as the C code sees  *)
(* it: a map from header address to header contents (size, is_free, next,  *)
(* prev, magic) plus the heap_head pointer; the list is whatever the       *)
(* next/prev links say, nothing is contiguous by construction.  PCBs are   *)
(* modelled the same way: a map from PCB address to PCB contents.          *)
(* Counters and sizes are uint32_t: arithmetic is modulo 2^32.  A uint32_t   *)
(* value v is held as v when v < 2^31 and as v - 2^32 otherwise (the       *)
(* integers of the model checker are 32 bits wide), so 0xFFFFFFFF is -1;   *)
(* Add32, Sub32 and the U* comparisons are the unsigned operations on that *)
(* form.                                                                   *)
(***************************************************************************)
EXTENDS Integers, Sequences, FiniteSets, TLC

VARIABLES
    heap_head,            \* memory.c: static memory_block_t* heap_head
    blocks,               \* header address -> header contents (arena bytes holding a header)
    memory_statistics,    \* memory.c: static memory_stats_t memory_statistics
    user_ptrs,            \* pointers returned by memory_alloc to callers, not yet freed
    stale_ptrs,           \* pointers callers already freed and still hold
    pcb,                  \* PCB address -> PCB contents (idle_pcb and heap PCBs)
    process_list_head,    \* scheduler.c: static process_list_head
    current_process,      \* scheduler.c: static current_process
    scheduler_running,    \* scheduler.c: static scheduler_running
    scheduler_locked,     \* scheduler.c: static scheduler_locked
    next_process_id,      \* scheduler.c: static next_process_id
    scheduler_statistics, \* scheduler.c: static scheduler_statistics
    interrupt_table,      \* interrupt.c: static interrupt_table, the vectors of Irqs
    interrupt_statistics, \* interrupt.c: static interrupt_statistics
    interrupt_nesting_level, \* interrupt.c: static interrupt_nesting_level
    nvic_enabled,         \* vectors whose enable bit is set in the NVIC
    registered,           \* per vector: the arguments of its last interrupt_register
    syscall_table,        \* interrupt.c: static syscall_table
    primask,              \* the PRIMASK bit: interrupts are globally masked
    critical_nesting,     \* kernel_core.c: static critical_nesting
    alloc_frame,          \* the memory_alloc call an interrupt has suspended: its locals
    system_info_state,    \* kernel_core.c: system_info.state
    current_boot_stage,   \* boot.c: static current_boot_stage
    boot_error_flag,      \* boot.c: static boot_error_flag
    boot_pc,              \* where main() is
    timeout,              \* boot_init_clocks: the local timeout
    boot_log,             \* the initialisation functions called so far, in order
    rcc_ready,            \* the clock ready flags the hardware has set
    ret,                  \* the last completed call: operation, arguments, result
    burst                 \* the run of consecutive scheduler_tick calls in progress

heapvars == <<heap_head, blocks, memory_statistics>>
uservars == <<user_ptrs, stale_ptrs>>
schedvars == <<pcb, process_list_head, current_process, scheduler_running,
               scheduler_locked, next_process_id, scheduler_statistics>>
intvars == <<interrupt_table, interrupt_statistics, interrupt_nesting_level,
             nvic_enabled, registered>>
sysvars == <<syscall_table, primask, critical_nesting, alloc_frame>>
bootvars == <<system_info_state, current_boot_stage, boot_error_flag, boot_pc,
              timeout, boot_log, rcc_ready>>
vars == <<heap_head, blocks, memory_statistics, user_ptrs, stale_ptrs,
          pcb, process_list_head, current_process, scheduler_running,
          scheduler_locked, next_process_id, scheduler_statistics,
          interrupt_table, interrupt_statistics, interrupt_nesting_level,
          nvic_enabled, registered, syscall_table, primask, critical_nesting,
          alloc_frame,
          system_info_state, current_boot_stage, boot_error_flag, boot_pc,
          timeout, boot_log, rcc_ready, ret, burst>>

(***************************************************************************)
(* Program constants                                                       *)
(***************************************************************************)
NULL == 0
\* largest value held as itself: 2^31 - 1
INT32_MAX == 2147483647
HEAP_SIZE == 32768
MEMORY_ALIGNMENT == 8
\* 0xDEADBEEF and 0xFEEDFACE in the form above
MEMORY_BLOCK_MAGIC == -559038737
MEMORY_FREE_MAGIC == -17958194
\* sizeof(memory_block_t) on the 32-bit target: 4+4+1(+3 padding)+4+4+4
SIZEOF_memory_block_t == 24
\* sizeof(process_control_block_t) on the 32-bit target
SIZEOF_process_control_block_t == 168
DEFAULT_TIME_SLICE_MS == 10
IDLE_PROCESS_ID == 0
MIN_STACK_SIZE == 512
\* tweakngeek_config.h:32, scheduler.c:16
MAX_PROCESSES == 16
PROCESS_STATE_READY == 0
PROCESS_STATE_RUNNING == 1
PRIORITY_IDLE == 0
PRIORITY_CRITICAL == 4
KERNEL_OK == 0
KERNEL_ERROR == -1
KERNEL_ERROR_INVALID_PARAM == -2
KERNEL_ERROR_TIMEOUT == -4
SYSTEM_STATE_BOOT == 0
SYSTEM_STATE_INIT == 1
SYSTEM_STATE_RUNNING == 2
SYSTEM_STATE_ERROR == 4
BOOT_STAGE_START == 0
BOOT_STAGE_HARDWARE_INIT == 1
BOOT_STAGE_CLOCK_INIT == 2
BOOT_STAGE_MEMORY_INIT == 3
BOOT_STAGE_INTERRUPT_INIT == 4
BOOT_STAGE_SCHEDULER_INIT == 5
BOOT_STAGE_COMPLETE == 6
SYSCALL_PROCESS_CREATE == 0
SYSCALL_PROCESS_TERMINATE == 1
SYSCALL_MEMORY_ALLOC == 2
SYSCALL_MEMORY_FREE == 3
SYSCALL_SCHEDULER_YIELD == 4
SYSCALL_GET_SYSTEM_INFO == 5
SYSCALL_MAX_COUNT == 6
\* the value svc_handler and syscall_invoke give for an invalid call: 0xFFFFFFFF
SYSCALL_INVALID == -1
\* boot.c:76: the polls boot_init_clocks allows each ready flag
CLOCK_TIMEOUT == 10000
IRQ_MAX_COUNT == 63
IRQ_PRIORITY_HIGH == 1
IRQ_PRIORITY_NORMAL == 2
\* sizeof(interrupt_table[irq].name)
SIZEOF_name == 16
\* sizeof(system_info_t) on the 32-bit target: 6 words, one byte, padding
SIZEOF_system_info_t == 28
\* link-time addresses of the static objects (any 8-aligned, pairwise apart)
heap_memory == 4096
idle_pcb == 1024
idle_stack == 2048
SIZEOF_idle_stack == 1024
default_irq_handler == 512
\* the handlers of syscalls.c, by system-call number
syscall_handlers ==
    [n \in 0..(SYSCALL_MAX_COUNT - 1) |-> 520 + 8 * n]

(***************************************************************************)
(* Bounds of the model                                                     *)
(***************************************************************************)
MaxUserAllocs == 2        \* pointers callers hold at once (heap specification)
MaxStale == 1             \* freed pointers callers keep around
MaxDriverAllocs == 1      \* pointers drivers hold at once (scheduler specification)
MaxProcessId == 2         \* process_create is called while next_process_id <= this
MaxPriority == 2          \* priorities passed to process_create: PRIORITY_IDLE..this
MaxSwitches == 2          \* context switches per behaviour
MaxRuntime == 10          \* ticks are handled while the running process has run fewer
MaxDispatches == 1        \* interrupts dispatched per behaviour
MaxSyscalls == 2          \* system calls handled per behaviour
MaxNesting == 2           \* kernel_enter_critical is called while critical_nesting < this
MaxPeers == 3             \* processes created in the behaviours with ticks arriving forever
CounterModulus == 2       \* there, total_runtime and context_switches are kept modulo this
MaxCreated == 17         \* process_create is called while next_process_id <= this
MaxTerminateId == 2      \* process_terminate is called with ids up to this (capacity specification)

\* request sizes callers pass to memory_alloc / memory_realloc (heap specification)
AllocSizes == {0, 80, 100, 32600}
\* request size drivers pass to memory_alloc while processes come and go:
\* alone in the heap it leaves no room for a PCB
DriverSizes == {32700}
\* stack sizes callers pass to process_create
StackSizes == {256, 512, 31000}
Priorities == PRIORITY_IDLE..MaxPriority
\* the vectors of the interrupt table that are modelled: the first and the last
Irqs == {0, IRQ_MAX_COUNT - 1}
\* handlers drivers pass to interrupt_register (NULL: none)
IrqHandlers == {NULL, 768}
\* vector numbers passed to the interrupt calls: those modelled and the first
\* beyond the table
IrqInputs == Irqs \cup {IRQ_MAX_COUNT}
\* system-call numbers passed to syscall_register and syscall_invoke
SyscallInputs == 0..SYSCALL_MAX_COUNT
\* system-call numbers drivers pass to syscall_register: the first, the last
\* and the first beyond the table
SyscallSlots == {SYSCALL_PROCESS_CREATE, SYSCALL_GET_SYSTEM_INFO, SYSCALL_MAX_COUNT}
\* handlers drivers pass to syscall_register (NULL: none)
SyscallHandlers == {NULL, 776}
\* immediates of the SVC instructions user code executes (one byte)
SvcNumbers == SyscallInputs \cup {255}
\* argument registers of a system call: nothing; a size; an entry point, a
\* stack size and a priority; the id of the first process created; four
\* different values
SvcFrames == {<<0, 0, 0, 0>>, <<100, 0, 0, 0>>, <<2048, 512, 1, 0>>,
              <<1, 0, 0, 0>>, <<1, 2, 3, 4>>}
\* names drivers pass to interrupt_register, as pointers to strings: none,
\* "uart", and a name of sizeof(name) characters
IrqNames == {NULL, 800, 832}
\* the characters of the string at name
CString(name) ==
    IF name = 800 THEN <<117, 97, 114, 116>> ELSE [i \in 1..SIZEOF_name |-> 96 + i]

(***************************************************************************)
(* 32-bit unsigned arithmetic                                              *)
(***************************************************************************)
Add32(a, b) ==
    IF a >= 0 /\ b >= 0 /\ a > INT32_MAX - b
    THEN (a - INT32_MAX - 1) + (b - INT32_MAX - 1)
    ELSE IF a < 0 /\ b < 0 /\ a < (-INT32_MAX - 1) - b
    THEN (a + INT32_MAX + 1) + (b + INT32_MAX + 1)
    ELSE a + b
Neg32(a) == IF a = -INT32_MAX - 1 THEN a ELSE -a
Sub32(a, b) == Add32(a, Neg32(b))
\* unsigned <, <=, >, >=
ULt(a, b) == IF (a >= 0) = (b >= 0) THEN a < b ELSE b < 0
ULe(a, b) == a = b \/ ULt(a, b)
UGt(a, b) == ULt(b, a)
UGe(a, b) == ULe(b, a)

\* memory.c:18  (((size) + MEMORY_ALIGNMENT - 1) & ~(MEMORY_ALIGNMENT - 1))
ALIGN_SIZE(size) ==
    LET s == Add32(size, MEMORY_ALIGNMENT - 1)
    IN  s - (s % MEMORY_ALIGNMENT)   \* clearing the low three bits, in either sign

\* the PCBs of the process list, head first, along the next links
RECURSIVE ListFrom(_, _, _)
ListFrom(P, current, fuel) ==
    IF current = NULL \/ fuel = 0 \/ current \notin DOMAIN P THEN <<>>
    ELSE <<current>> \o ListFrom(P, P[current].next, fuel - 1)

ProcList(S) == ListFrom(S.pcb, S.process_list_head, Cardinality(DOMAIN S.pcb) + 1)

\* the blocks of the heap list, head first, along the next links
BlockList(H) == ListFrom(H.blocks, H.heap_head, Cardinality(DOMAIN H.blocks) + 1)

Range(seq) == {seq[i] : i \in 1..Len(seq)}

(***************************************************************************)
(* Heap allocator.  A heap state H is a record                             *)
(*   [heap_head, blocks, memory_statistics].                               *)
(***************************************************************************)
HeapState ==
    [heap_head |-> heap_head, blocks |-> blocks,
     memory_statistics |-> memory_statistics]

\* memory.c:85-101 heap_init followed by memory.c:61-64 of memory_init
heap_init(heap_start, heap_size) ==
    [heap_head |-> heap_start,
     blocks |-> (heap_start :> [size |-> heap_size - SIZEOF_memory_block_t,
                                is_free |-> TRUE,
                                next |-> NULL,
                                prev |-> NULL,
                                magic |-> MEMORY_FREE_MAGIC]),
     memory_statistics |-> [total_memory |-> heap_size,
                            free_memory |-> heap_size - SIZEOF_memory_block_t,
                            used_memory |-> SIZEOF_memory_block_t]]

\* the scan passing over a free block whose payload equals the size asked for
RECURSIVE FindFree_strict(_, _, _, _)
FindFree_strict(B, current, size, fuel) ==
    IF current = NULL \/ fuel = 0 THEN NULL
    ELSE IF B[current].is_free /\ UGt(B[current].size, size) THEN current
    ELSE FindFree_strict(B, B[current].next, size, fuel - 1)

\* memory.c:119-126: first-fit scan along the next links
RECURSIVE FindFree(_, _, _, _)
FindFree(B, current, size, fuel) ==
    IF current = NULL \/ fuel = 0 THEN NULL
    ELSE IF B[current].is_free /\ UGe(B[current].size, size) THEN current
    ELSE FindFree(B, B[current].next, size, fuel - 1)

\* header bytes lying inside the payload [lo, hi) handed to a caller are the
\* caller's to overwrite: they no longer hold a header
DropInside(B, lo, hi) ==
    [a \in {x \in DOMAIN B : ~(x >= lo /\ x < hi)} |-> B[a]]

\* the statistics update counting the payload without its header on one side
AllocStats_noheader(st, blocksize) ==
    [st EXCEPT !.used_memory = Add32(@, Add32(blocksize, SIZEOF_memory_block_t)),
               !.free_memory = Sub32(@, blocksize)]

\* memory.c:154-157
AllocStats(st, blocksize) ==
    [st EXCEPT !.used_memory = Add32(@, Add32(blocksize, SIZEOF_memory_block_t)),
               !.free_memory = Sub32(@, Add32(blocksize, SIZEOF_memory_block_t))]

\* the split giving the new block the remainder without taking off its header
SplitBlock_noheader(B, current, size) ==
    IF UGt(B[current].size, Add32(size, SIZEOF_memory_block_t + MEMORY_ALIGNMENT))
    THEN LET new_block == current + SIZEOF_memory_block_t + size
             nxt == B[current].next
             B1 == (new_block :> [size |-> Sub32(B[current].size, size),
                                  is_free |-> TRUE,
                                  next |-> nxt,
                                  prev |-> current,
                                  magic |-> MEMORY_FREE_MAGIC]) @@ B
             B2 == IF nxt # NULL THEN [B1 EXCEPT ![nxt].prev = new_block] ELSE B1
         IN  [B2 EXCEPT ![current].next = new_block, ![current].size = size]
    ELSE B

\* memory.c:132-147
SplitBlock(B, current, size) ==
    IF UGt(B[current].size, Add32(size, SIZEOF_memory_block_t + MEMORY_ALIGNMENT))
    THEN LET new_block == current + SIZEOF_memory_block_t + size
             nxt == B[current].next
             B1 == (new_block :> [size |-> Sub32(Sub32(B[current].size, size), SIZEOF_memory_block_t),
                                  is_free |-> TRUE,
                                  next |-> nxt,
                                  prev |-> current,
                                  magic |-> MEMORY_FREE_MAGIC]) @@ B
             B2 == IF nxt # NULL THEN [B1 EXCEPT ![nxt].prev = new_block] ELSE B1
         IN  [B2 EXCEPT ![current].next = new_block, ![current].size = size]
    ELSE B

\* memory.c:110-168; the result is [H |-> heap state after, ptr |-> returned pointer]
memory_alloc(H, reqsize) ==
    IF reqsize = 0 THEN [H |-> H, ptr |-> NULL]
    ELSE
    LET size == ALIGN_SIZE(reqsize)
        current == FindFree(H.blocks, H.heap_head, size, Cardinality(DOMAIN H.blocks) + 1)
    IN  IF current = NULL THEN [H |-> H, ptr |-> NULL]
        ELSE
        LET B1 == SplitBlock(H.blocks, current, size)
            B2 == [B1 EXCEPT ![current].is_free = FALSE,
                             ![current].magic = MEMORY_BLOCK_MAGIC]
            user_ptr == current + SIZEOF_memory_block_t
            B3 == DropInside(B2, user_ptr, user_ptr + B2[current].size)
        IN  [H |-> [heap_head |-> H.heap_head,
                    blocks |-> B3,
                    memory_statistics |-> AllocStats(H.memory_statistics, B2[current].size)],
             ptr |-> user_ptr]

\* memory.c:132-168: memory_alloc from the split on, for a call that chose
\* current for size (aligned) and then reads cur_size as current->size
memory_alloc_resume(H, current, size, cur_size) ==
    LET split == UGt(cur_size, Add32(size, SIZEOF_memory_block_t + MEMORY_ALIGNMENT))
        B1 == IF split
              THEN SplitBlock([H.blocks EXCEPT ![current].size = cur_size], current, size)
              ELSE H.blocks
        B2 == [B1 EXCEPT ![current].is_free = FALSE,
                         ![current].magic = MEMORY_BLOCK_MAGIC]
        taken == IF split THEN size ELSE cur_size
        user_ptr == current + SIZEOF_memory_block_t
        B3 == DropInside(B2, user_ptr, user_ptr + B2[current].size)
    IN  [H |-> [heap_head |-> H.heap_head,
                blocks |-> B3,
                memory_statistics |-> AllocStats(H.memory_statistics, taken)],
         ptr |-> user_ptr]

\* memory.c:193-195
FreeStats(st, blocksize) ==
    [st EXCEPT !.used_memory = Sub32(@, Add32(blocksize, SIZEOF_memory_block_t)),
               !.free_memory = Add32(@, Add32(blocksize, SIZEOF_memory_block_t))]

\* the merge with the next block made whether or not that block is free
CoalesceNext_any(B, block) ==
    LET nxt == B[block].next
    IN  IF nxt # NULL
        THEN LET nn == B[nxt].next
                 B1 == [B EXCEPT ![block].size = Add32(Add32(@, B[nxt].size), SIZEOF_memory_block_t)]
                 B2 == IF nn # NULL THEN [B1 EXCEPT ![nn].prev = block] ELSE B1
             IN  [B2 EXCEPT ![block].next = nn]
        ELSE B

\* memory.c:197-204
CoalesceNext(B, block) ==
    LET nxt == B[block].next
    IN  IF nxt # NULL /\ B[nxt].is_free
        THEN LET nn == B[nxt].next
                 B1 == [B EXCEPT ![block].size = Add32(Add32(@, B[nxt].size), SIZEOF_memory_block_t)]
                 B2 == IF nn # NULL THEN [B1 EXCEPT ![nn].prev = block] ELSE B1
             IN  [B2 EXCEPT ![block].next = nn]
        ELSE B

\* the merge with the previous block made whether or not that block is free
CoalescePrev_any(B, block) ==
    LET prv == B[block].prev
    IN  IF prv # NULL
        THEN LET nxt == B[block].next
                 B1 == [B EXCEPT ![prv].size = Add32(Add32(@, B[block].size), SIZEOF_memory_block_t)]
                 B2 == IF nxt # NULL THEN [B1 EXCEPT ![nxt].prev = prv] ELSE B1
             IN  [B2 EXCEPT ![prv].next = nxt]
        ELSE B

\* the merge with the previous block adding the payload without its header
CoalescePrev_payload(B, block) ==
    LET prv == B[block].prev
    IN  IF prv # NULL /\ B[prv].is_free
        THEN LET nxt == B[block].next
                 B1 == [B EXCEPT ![prv].size = Add32(@, B[block].size)]
                 B2 == IF nxt # NULL THEN [B1 EXCEPT ![nxt].prev = prv] ELSE B1
             IN  [B2 EXCEPT ![prv].next = nxt]
        ELSE B

\* no merge with the previous block
CoalescePrev_skip(B, block) == B

\* memory.c:206-213
CoalescePrev(B, block) ==
    LET prv == B[block].prev
    IN  IF prv # NULL /\ B[prv].is_free
        THEN LET nxt == B[block].next
                 B1 == [B EXCEPT ![prv].size = Add32(Add32(@, B[block].size), SIZEOF_memory_block_t)]
                 B2 == IF nxt # NULL THEN [B1 EXCEPT ![nxt].prev = prv] ELSE B1
             IN  [B2 EXCEPT ![prv].next = nxt]
        ELSE B

\* the validation passing every non-null pointer behind a header
FreeAccepted_unchecked(H, ptr) ==
    /\ ptr # NULL
    /\ (ptr - SIZEOF_memory_block_t) \in DOMAIN H.blocks

\* memory.c:175-187: does the pointer pass the validation of memory_free?
FreeAccepted(H, ptr) ==
    /\ ptr # NULL
    /\ (ptr - SIZEOF_memory_block_t) \in DOMAIN H.blocks
    /\ H.blocks[ptr - SIZEOF_memory_block_t].magic = MEMORY_BLOCK_MAGIC
    /\ ~H.blocks[ptr - SIZEOF_memory_block_t].is_free

\* the release that leaves the block live
memory_free_kept(H, ptr) == H

\* memory.c:175-214; the result is the heap state after
memory_free(H, ptr) ==
    IF ~FreeAccepted(H, ptr) THEN H
    ELSE
    LET block == ptr - SIZEOF_memory_block_t
        B1 == [H.blocks EXCEPT ![block].is_free = TRUE,
                               ![block].magic = MEMORY_FREE_MAGIC]
        st == FreeStats(H.memory_statistics, H.blocks[block].size)
        B2 == CoalesceNext(B1, block)
        B3 == CoalescePrev(B2, block)
    IN  [heap_head |-> H.heap_head, blocks |-> B3, memory_statistics |-> st]

\* the reallocation that moves the data and keeps the old block
memory_realloc_leak(H, ptr, new_size) ==
    IF ptr = NULL THEN memory_alloc(H, new_size)
    ELSE IF new_size = 0 THEN [H |-> memory_free(H, ptr), ptr |-> NULL]
    ELSE IF ~FreeAccepted(H, ptr) THEN [H |-> H, ptr |-> NULL]
    ELSE IF ULe(new_size, H.blocks[ptr - SIZEOF_memory_block_t].size) THEN [H |-> H, ptr |-> ptr]
    ELSE memory_alloc(H, new_size)

\* memory.c:223-254; the result is [H |-> heap state after, ptr |-> returned pointer]
memory_realloc(H, ptr, new_size) ==
    IF ptr = NULL THEN memory_alloc(H, new_size)
    ELSE IF new_size = 0 THEN [H |-> memory_free(H, ptr), ptr |-> NULL]
    ELSE IF ~FreeAccepted(H, ptr) THEN [H |-> H, ptr |-> NULL]
    ELSE IF ULe(new_size, H.blocks[ptr - SIZEOF_memory_block_t].size) THEN [H |-> H, ptr |-> ptr]
    ELSE LET a == memory_alloc(H, new_size)
         IN  IF a.ptr # NULL
             THEN [H |-> memory_free(a.H, ptr), ptr |-> a.ptr]
             ELSE a


(***************************************************************************)
(* Process scheduler.  A scheduler state S is a record with the fields of  *)
(* SchedState.  A PCB is a record [process_id, state, priority,            *)
(* stack_base, stack_size, time_slice, time_remaining, total_runtime,      *)
(* next, prev].  What the operations only write and never read is left     *)
(* out: the PCB fields name, registers, stack_pointer, last_scheduled and  *)
(* flags, and the scheduler_ticks statistic.                               *)
(***************************************************************************)
SchedState ==
    [pcb |-> pcb, process_list_head |-> process_list_head,
     current_process |-> current_process,
     scheduler_running |-> scheduler_running,
     scheduler_locked |-> scheduler_locked,
     next_process_id |-> next_process_id,
     scheduler_statistics |-> scheduler_statistics]

\* scheduler.c:391-401
add_process_to_list(P, head, p) ==
    LET P1 == [P EXCEPT ![p].next = head, ![p].prev = NULL]
        P2 == IF head # NULL THEN [P1 EXCEPT ![head].prev = p] ELSE P1
    IN  [pcb |-> P2, process_list_head |-> p]

\* scheduler.c:408-419
remove_process_from_list(P, head, p) ==
    LET prv == P[p].prev
        nxt == P[p].next
        P1 == IF prv # NULL THEN [P EXCEPT ![prv].next = nxt] ELSE P
        h1 == IF prv # NULL THEN head ELSE nxt
        P2 == IF nxt # NULL THEN [P1 EXCEPT ![nxt].prev = prv] ELSE P1
    IN  [pcb |-> P2, process_list_head |-> h1]

\* scheduler.c:51-85
scheduler_init ==
    LET idle == [process_id |-> IDLE_PROCESS_ID,
                 state |-> PROCESS_STATE_READY,
                 priority |-> PRIORITY_IDLE,
                 stack_base |-> idle_stack,
                 stack_size |-> SIZEOF_idle_stack,
                 time_slice |-> DEFAULT_TIME_SLICE_MS,
                 time_remaining |-> DEFAULT_TIME_SLICE_MS,
                 total_runtime |-> 0,
                 next |-> NULL,
                 prev |-> NULL]
        l == add_process_to_list((idle_pcb :> idle), NULL, idle_pcb)
    IN  [pcb |-> l.pcb,
         process_list_head |-> l.process_list_head,
         current_process |-> idle_pcb,
         scheduler_running |-> FALSE,
         scheduler_locked |-> FALSE,
         next_process_id |-> 1,
         scheduler_statistics |-> [total_processes |-> 0,
                                   active_processes |-> 0,
                                   context_switches |-> 0]]

\* scheduler.c:90-99
scheduler_start(S) ==
    [S EXCEPT !.scheduler_running = TRUE,
              !.current_process = idle_pcb,
              !.pcb[idle_pcb].state = PROCESS_STATE_RUNNING]

\* the scan loop with > for >=: the first of several equal priorities is kept
RECURSIVE ScanReady_strict(_, _, _, _, _)
ScanReady_strict(P, current, best_process, highest_priority, fuel) ==
    IF current = NULL \/ fuel = 0 THEN best_process
    ELSE IF P[current].state = PROCESS_STATE_READY
            /\ (P[current].priority > highest_priority \/ best_process = NULL)
         THEN ScanReady_strict(P, P[current].next, current, P[current].priority, fuel - 1)
         ELSE ScanReady_strict(P, P[current].next, best_process, highest_priority, fuel - 1)

\* scheduler.c:294-301: the scan loop, carrying best_process and highest_priority
RECURSIVE ScanReady(_, _, _, _, _)
ScanReady(P, current, best_process, highest_priority, fuel) ==
    IF current = NULL \/ fuel = 0 THEN best_process
    ELSE IF P[current].state = PROCESS_STATE_READY
            /\ P[current].priority >= highest_priority
         THEN ScanReady(P, P[current].next, current, P[current].priority, fuel - 1)
         ELSE ScanReady(P, P[current].next, best_process, highest_priority, fuel - 1)

\* the scan without the priority comparison: the last Ready PCB of the list
get_next_ready_process_last(S) ==
    LET l == ListFrom(S.pcb, S.process_list_head, Cardinality(DOMAIN S.pcb) + 1)
        r == {i \in 1..Len(l) : S.pcb[l[i]].state = PROCESS_STATE_READY}
    IN  IF r = {} THEN idle_pcb ELSE l[CHOOSE i \in r : \A j \in r : j <= i]

\* scheduler.c:289-304
get_next_ready_process(S) ==
    LET best_process == ScanReady(S.pcb, S.process_list_head, NULL, PRIORITY_IDLE,
                                  Cardinality(DOMAIN S.pcb) + 1)
    IN  IF best_process # NULL THEN best_process ELSE idle_pcb

\* scheduler.c:129-158 (context_switch only moves the stack pointer register)
scheduler_preempt(S) ==
    IF ~S.scheduler_running \/ S.scheduler_locked THEN S
    ELSE
    LET next_process == get_next_ready_process(S)
        prev_process == S.current_process
    IN  IF next_process # NULL /\ next_process # S.current_process
        THEN LET P1 == IF prev_process # NULL
                          /\ S.pcb[prev_process].state = PROCESS_STATE_RUNNING
                       THEN [S.pcb EXCEPT ![prev_process].state = PROCESS_STATE_READY]
                       ELSE S.pcb
                 P2 == [P1 EXCEPT ![next_process].state = PROCESS_STATE_RUNNING,
                                  ![next_process].time_remaining = P1[next_process].time_slice]
             IN  [S EXCEPT !.pcb = P2,
                           !.current_process = next_process,
                           !.scheduler_statistics.context_switches = Add32(@, 1)]
        ELSE IF S.current_process # NULL
        THEN [S EXCEPT !.pcb[S.current_process].time_remaining =
                           S.pcb[S.current_process].time_slice]
        ELSE S

\* A call result of the scheduler operations: the state after, how many times
\* scheduler_preempt was invoked, and the state in which it was invoked.
NoPreempt(S) == [S |-> S, preempts |-> 0, at |-> S]
WithPreempt(S) == [S |-> scheduler_preempt(S), preempts |-> 1, at |-> S]

\* scheduler_tick calling scheduler_preempt one tick early
scheduler_tick_early(S) ==
    IF ~S.scheduler_running \/ S.scheduler_locked THEN NoPreempt(S)
    ELSE
    LET cp == S.current_process
        S2 == IF cp # NULL /\ S.pcb[cp].time_remaining > 0
              THEN [S EXCEPT !.pcb[cp].time_remaining = @ - 1,
                             !.pcb[cp].total_runtime = Add32(@, 1)]
              ELSE S
    IN  IF cp # NULL /\ S2.pcb[cp].time_remaining <= 1
        THEN WithPreempt(S2)
        ELSE NoPreempt(S2)

\* scheduler_tick not looking at the scheduler lock
scheduler_tick_unlocked(S) ==
    IF ~S.scheduler_running THEN NoPreempt(S)
    ELSE
    LET cp == S.current_process
        S2 == IF cp # NULL /\ S.pcb[cp].time_remaining > 0
              THEN [S EXCEPT !.pcb[cp].time_remaining = @ - 1,
                             !.pcb[cp].total_runtime = Add32(@, 1)]
              ELSE S
    IN  IF cp # NULL /\ S2.pcb[cp].time_remaining = 0
        THEN WithPreempt(S2)
        ELSE NoPreempt(S2)

\* the tick handler decrementing the remaining quantum whatever it is
scheduler_tick_blind(S) ==
    IF ~S.scheduler_running \/ S.scheduler_locked THEN NoPreempt(S)
    ELSE
    LET cp == S.current_process
        S2 == IF cp # NULL
              THEN [S EXCEPT !.pcb[cp].time_remaining = Sub32(@, 1),
                             !.pcb[cp].total_runtime = Add32(@, 1)]
              ELSE S
    IN  IF cp # NULL /\ S2.pcb[cp].time_remaining = 0
        THEN WithPreempt(S2)
        ELSE NoPreempt(S2)

\* scheduler.c:106-124
scheduler_tick(S) ==
    IF ~S.scheduler_running \/ S.scheduler_locked THEN NoPreempt(S)
    ELSE
    LET cp == S.current_process
        S2 == IF cp # NULL /\ S.pcb[cp].time_remaining > 0
              THEN [S EXCEPT !.pcb[cp].time_remaining = @ - 1,
                             !.pcb[cp].total_runtime = Add32(@, 1)]
              ELSE S
    IN  IF cp # NULL /\ S2.pcb[cp].time_remaining = 0
        THEN WithPreempt(S2)
        ELSE NoPreempt(S2)

\* scheduler.c:163-174
scheduler_yield(S) ==
    IF ~S.scheduler_running THEN NoPreempt(S)
    ELSE
    LET S1 == IF S.current_process # NULL
              THEN [S EXCEPT !.pcb[S.current_process].time_remaining = 0]
              ELSE S
    IN  WithPreempt(S1)

\* scheduler.c:374-384
RECURSIVE FindById(_, _, _, _)
FindById(P, current, process_id, fuel) ==
    IF current = NULL \/ fuel = 0 THEN NULL
    ELSE IF P[current].process_id = process_id THEN current
    ELSE FindById(P, P[current].next, process_id, fuel - 1)

process_get_by_id(S, process_id) ==
    FindById(S.pcb, S.process_list_head, process_id, Cardinality(DOMAIN S.pcb) + 1)

\* process_create keeping the PCB block when the stack allocation fails
process_create_leak(S, H, name, entry_point, stack_size, priority) ==
    IF name = NULL \/ entry_point = NULL \/ ULt(stack_size, MIN_STACK_SIZE)
    THEN [S |-> S, H |-> H, id |-> 0]
    ELSE
    LET a1 == memory_alloc(H, SIZEOF_process_control_block_t)
    IN  IF a1.ptr = NULL THEN [S |-> S, H |-> H, id |-> 0]
        ELSE
        LET a2 == memory_alloc(a1.H, stack_size)
        IN  IF a2.ptr = NULL
            THEN [S |-> S, H |-> a1.H, id |-> 0]
            ELSE
            LET new == [process_id |-> S.next_process_id,
                        state |-> PROCESS_STATE_READY,
                        priority |-> priority,
                        stack_base |-> a2.ptr,
                        stack_size |-> stack_size,
                        time_slice |-> DEFAULT_TIME_SLICE_MS,
                        time_remaining |-> DEFAULT_TIME_SLICE_MS,
                        total_runtime |-> 0,
                               next |-> NULL,
                        prev |-> NULL]
                l == add_process_to_list((a1.ptr :> new) @@ S.pcb,
                                         S.process_list_head, a1.ptr)
            IN  [S |-> [S EXCEPT !.pcb = l.pcb,
                                 !.process_list_head = l.process_list_head,
                                 !.next_process_id = Add32(@, 1),
                                 !.scheduler_statistics.total_processes = Add32(@, 1),
                                 !.scheduler_statistics.active_processes = Add32(@, 1)],
                 H |-> a2.H,
                 id |-> S.next_process_id]

\* scheduler.c:186-248; the result is [S, H, id]
process_create(S, H, name, entry_point, stack_size, priority) ==
    IF name = NULL \/ entry_point = NULL \/ ULt(stack_size, MIN_STACK_SIZE)
    THEN [S |-> S, H |-> H, id |-> 0]
    ELSE
    LET a1 == memory_alloc(H, SIZEOF_process_control_block_t)
    IN  IF a1.ptr = NULL THEN [S |-> S, H |-> H, id |-> 0]
        ELSE
        LET a2 == memory_alloc(a1.H, stack_size)
        IN  IF a2.ptr = NULL
            THEN [S |-> S, H |-> memory_free(a1.H, a1.ptr), id |-> 0]
            ELSE
            LET new == [process_id |-> S.next_process_id,
                        state |-> PROCESS_STATE_READY,
                        priority |-> priority,
                        stack_base |-> a2.ptr,
                        stack_size |-> stack_size,
                        time_slice |-> DEFAULT_TIME_SLICE_MS,
                        time_remaining |-> DEFAULT_TIME_SLICE_MS,
                        total_runtime |-> 0,
                               next |-> NULL,
                        prev |-> NULL]
                l == add_process_to_list((a1.ptr :> new) @@ S.pcb,
                                         S.process_list_head, a1.ptr)
            IN  [S |-> [S EXCEPT !.pcb = l.pcb,
                                 !.process_list_head = l.process_list_head,
                                 !.next_process_id = Add32(@, 1),
                                 !.scheduler_statistics.total_processes = Add32(@, 1),
                                 !.scheduler_statistics.active_processes = Add32(@, 1)],
                 H |-> a2.H,
                 id |-> S.next_process_id]

\* the PCB unlinked, its stack not freed
TerminateRelease_leak(S, H, p) ==
    LET l == remove_process_from_list(S.pcb, S.process_list_head, p)
    IN  [S |-> [S EXCEPT !.pcb = l.pcb, !.process_list_head = l.process_list_head],
         H |-> H]

\* scheduler.c:263-269: unlink the PCB and free its stack
TerminateRelease(S, H, p) ==
    LET l == remove_process_from_list(S.pcb, S.process_list_head, p)
    IN  [S |-> [S EXCEPT !.pcb = l.pcb, !.process_list_head = l.process_list_head],
         H |-> IF S.pcb[p].stack_base # NULL
               THEN memory_free(H, S.pcb[p].stack_base)
               ELSE H]

\* process_terminate accepting the id of the idle process
process_terminate_idle(S, H, process_id) ==
    LET p == process_get_by_id(S, process_id)
    IN  IF p = NULL
        THEN [S |-> S, H |-> H, status |-> KERNEL_ERROR_INVALID_PARAM,
              preempts |-> 0, at |-> S]
        ELSE
        LET r == TerminateRelease(S, H, p)
            c == IF p = S.current_process
                 THEN WithPreempt([r.S EXCEPT !.current_process = NULL])
                 ELSE NoPreempt(r.S)
            \* memory_free(pcb): the PCB's bytes are heap memory again
            P3 == [a \in DOMAIN c.S.pcb \ {p} |-> c.S.pcb[a]]
        IN  [S |-> [c.S EXCEPT !.pcb = P3,
                               !.scheduler_statistics.active_processes = Sub32(@, 1)],
             H |-> memory_free(r.H, p),
             status |-> KERNEL_OK,
             preempts |-> c.preempts,
             at |-> c.at]

\* scheduler.c:256-282; the result is [S, H, status, preempts, at]
process_terminate(S, H, process_id) ==
    LET p == process_get_by_id(S, process_id)
    IN  IF p = NULL \/ S.pcb[p].process_id = IDLE_PROCESS_ID
        THEN [S |-> S, H |-> H, status |-> KERNEL_ERROR_INVALID_PARAM,
              preempts |-> 0, at |-> S]
        ELSE
        LET r == TerminateRelease(S, H, p)
            c == IF p = S.current_process
                 THEN WithPreempt([r.S EXCEPT !.current_process = NULL])
                 ELSE NoPreempt(r.S)
            \* memory_free(pcb): the PCB's bytes are heap memory again
            P3 == [a \in DOMAIN c.S.pcb \ {p} |-> c.S.pcb[a]]
        IN  [S |-> [c.S EXCEPT !.pcb = P3,
                               !.scheduler_statistics.active_processes = Sub32(@, 1)],
             H |-> memory_free(r.H, p),
             status |-> KERNEL_OK,
             preempts |-> c.preempts,
             at |-> c.at]

\* scheduler.c:424-427
scheduler_lock(S) == [S EXCEPT !.scheduler_locked = TRUE]

\* scheduler.c:432-435
scheduler_unlock(S) == [S EXCEPT !.scheduler_locked = FALSE]


(***************************************************************************)
(* Interrupt descriptors.  An interrupt state I is a record with the       *)
(* fields of IntState.  A descriptor is a record [irq_number, handler,     *)
(* priority, enabled, count, name]; a name is the sequence of its          *)
(* character codes.  The table is modelled for the vectors of Irqs.  The   *)
(* NVIC priority registers are left out.                                   *)
(* interrupt_system_initialized is true throughout: the states are those   *)
(* after kernel_init.                                                      *)
(***************************************************************************)
IntState ==
    [interrupt_table |-> interrupt_table,
     interrupt_statistics |-> interrupt_statistics,
     interrupt_nesting_level |-> interrupt_nesting_level,
     nvic_enabled |-> nvic_enabled]

\* the decimal digits of n < 100 as character codes
Digits(n) == IF n < 10 THEN <<48 + n>> ELSE <<48 + (n \div 10), 48 + (n % 10)>>

\* interrupt.c:63: snprintf(name, sizeof(name), "IRQ_%d", i)
DefaultName(i) == <<73, 82, 81, 95>> \o Digits(i)

\* interrupt.c:112-113: strncpy of sizeof(name) - 1 characters, then the terminator
strncpy_name(str) ==
    SubSeq(str, 1, IF Len(str) < SIZEOF_name - 1 THEN Len(str) ELSE SIZEOF_name - 1)

\* interrupt.c:51-80
interrupt_init ==
    [interrupt_table |->
         [i \in Irqs |-> [irq_number |-> i,
                          handler |-> default_irq_handler,
                          priority |-> IRQ_PRIORITY_NORMAL,
                          enabled |-> FALSE,
                          count |-> 0,
                          name |-> DefaultName(i)]],
     interrupt_statistics |-> [total_interrupts |-> 0,
                               nested_interrupts |-> 0,
                               max_nesting_level |-> 0,
                               current_nesting_level |-> 0,
                               system_calls |-> 0],
     interrupt_nesting_level |-> 0,
     nvic_enabled |-> {}]

\* the restoring that always unmasks
irq_restore_unmask(saved) == FALSE

\* interrupt.c:105-106, 127-129 (and 150-161, 227-240, 261-267): PRIMASK after
\* `primask = __get_PRIMASK(); __disable_irq(); ...; if (!primask) __enable_irq();`
\* when it held saved before
irq_restore(saved) ==
    LET masked == TRUE
    IN  IF ~saved THEN FALSE ELSE masked

\* interrupt.c:93-132; the result is [I, status]
interrupt_register(I, irq, handler, priority, name) ==
    IF irq >= IRQ_MAX_COUNT \/ handler = NULL
    THEN [I |-> I, status |-> KERNEL_ERROR_INVALID_PARAM]
    ELSE [I |-> [I EXCEPT !.interrupt_table[irq].handler = handler,
                          !.interrupt_table[irq].priority = priority,
                          !.interrupt_table[irq].count = 0,
                          !.interrupt_table[irq].name =
                              IF name # NULL THEN strncpy_name(CString(name)) ELSE @],
          status |-> KERNEL_OK]

\* interrupt.c:172-188; the result is [I, status]
interrupt_enable(I, irq) ==
    IF irq >= IRQ_MAX_COUNT
    THEN [I |-> I, status |-> KERNEL_ERROR_INVALID_PARAM]
    ELSE [I |-> [I EXCEPT !.nvic_enabled = @ \cup {irq},
                          !.interrupt_table[irq].enabled = TRUE],
          status |-> KERNEL_OK]

\* interrupt_disable putting the default handler back
interrupt_disable_reset(I, irq) ==
    IF irq >= IRQ_MAX_COUNT
    THEN [I |-> I, status |-> KERNEL_ERROR_INVALID_PARAM]
    ELSE [I |-> [I EXCEPT !.nvic_enabled = @ \ {irq},
                          !.interrupt_table[irq].handler = default_irq_handler,
                          !.interrupt_table[irq].enabled = FALSE],
          status |-> KERNEL_OK]

\* interrupt.c:196-212; the result is [I, status]
interrupt_disable(I, irq) ==
    IF irq >= IRQ_MAX_COUNT
    THEN [I |-> I, status |-> KERNEL_ERROR_INVALID_PARAM]
    ELSE [I |-> [I EXCEPT !.nvic_enabled = @ \ {irq},
                          !.interrupt_table[irq].enabled = FALSE],
          status |-> KERNEL_OK]

\* interrupt.c:140-164; the result is [I, status]
interrupt_unregister(I, irq) ==
    IF irq >= IRQ_MAX_COUNT
    THEN [I |-> I, status |-> KERNEL_ERROR_INVALID_PARAM]
    ELSE LET I1 == interrupt_disable(I, irq).I
         IN  [I |-> [I1 EXCEPT !.interrupt_table[irq].handler = default_irq_handler,
                               !.interrupt_table[irq].priority = IRQ_PRIORITY_NORMAL,
                               !.interrupt_table[irq].enabled = FALSE,
                               !.interrupt_table[irq].count = 0,
                               !.interrupt_table[irq].name = DefaultName(irq)],
              status |-> KERNEL_OK]

\* interrupt.c:220-243; the result is [I, status].  The NVIC priority register
\* is written with the same value and is not kept apart.
interrupt_set_priority(I, irq, priority) ==
    IF irq >= IRQ_MAX_COUNT
    THEN [I |-> I, status |-> KERNEL_ERROR_INVALID_PARAM]
    ELSE [I |-> [I EXCEPT !.interrupt_table[irq].priority = priority],
          status |-> KERNEL_OK]

\* interrupt.c:348-358: the body of default_irq_handler
default_irq_handler_body(I) ==
    LET n == Add32(I.interrupt_nesting_level, 1)
    IN  [I EXCEPT !.interrupt_statistics.total_interrupts = Add32(@, 1),
                  !.interrupt_statistics.max_nesting_level = IF UGt(n, @) THEN n ELSE @]

\* interrupt.c:403-431; the result is [I, invoked]: the handler called, NULL
\* if none.  A handler a driver registered changes no kernel state.
interrupt_common_handler(I, irq_number) ==
    IF irq_number >= IRQ_MAX_COUNT THEN [I |-> I, invoked |-> NULL]
    ELSE
    LET n == Add32(I.interrupt_nesting_level, 1)
        I1 == [I EXCEPT !.interrupt_nesting_level = n,
                        !.interrupt_statistics.total_interrupts = Add32(@, 1),
                        !.interrupt_statistics.nested_interrupts =
                            IF UGt(n, 1) THEN Add32(@, 1) ELSE @,
                        !.interrupt_statistics.max_nesting_level =
                            IF UGt(n, @) THEN n ELSE @,
                        !.interrupt_table[irq_number].count = Add32(@, 1)]
        h == I1.interrupt_table[irq_number].handler
        I2 == IF h = default_irq_handler THEN default_irq_handler_body(I1) ELSE I1
        m == Sub32(I2.interrupt_nesting_level, 1)
    IN  [I |-> [I2 EXCEPT !.interrupt_nesting_level = m,
                          !.interrupt_statistics.current_nesting_level = m],
         invoked |-> h]


(***************************************************************************)
(* System calls.  The system-call table maps each number below             *)
(* SYSCALL_MAX_COUNT to the address of its handler, NULL when none is      *)
(* bound.  A handler works on the kernel state K = [H, S], a heap state    *)
(* and a scheduler state, and gives [K, result].                           *)
(***************************************************************************)
KernelState == [H |-> HeapState, S |-> SchedState]

\* syscalls.c:29-53, on the table interrupt_init has cleared (interrupt.c:54)
syscalls_init == syscall_handlers

\* interrupt.c:255-271; the result is [T, status], T the table after
syscall_register_null(T, syscall, handler) ==
    IF syscall >= SYSCALL_MAX_COUNT
    THEN [T |-> T, status |-> KERNEL_ERROR_INVALID_PARAM]
    ELSE [T |-> [T EXCEPT ![syscall] = handler],
          status |-> IF handler = NULL THEN KERNEL_ERROR_INVALID_PARAM ELSE KERNEL_OK]

syscall_register(T, syscall, handler) ==
    IF syscall >= SYSCALL_MAX_COUNT \/ handler = NULL
    THEN [T |-> T, status |-> KERNEL_ERROR_INVALID_PARAM]
    ELSE [T |-> [T EXCEPT ![syscall] = handler], status |-> KERNEL_OK]

\* syscalls.c:64-74
syscall_process_create(K, entry_point, stack_size, priority, flags) ==
    IF entry_point = 0 \/ ULt(stack_size, 512)
    THEN [K |-> K, result |-> 0]
    ELSE [K |-> K, result |-> 0]

\* syscalls.c:85-98
syscall_process_terminate(K, process_id, exit_code, unused1, unused2) ==
    IF process_id = 0
    THEN [K |-> K, result |-> 1]
    ELSE [K |-> K, result |-> 1]

\* syscalls.c:109-123
syscall_memory_alloc(K, size, alignment, flags, unused) ==
    IF size = 0 \/ UGt(size, 1024 * 1024)
    THEN [K |-> K, result |-> 0]
    ELSE LET a == memory_alloc(K.H, size)
         IN  [K |-> [K EXCEPT !.H = a.H], result |-> a.ptr]

\* syscalls.c:134-148
syscall_memory_free(K, address, unused1, unused2, unused3) ==
    IF address = 0
    THEN [K |-> K, result |-> 1]
    ELSE [K |-> [K EXCEPT !.H = memory_free(K.H, address)], result |-> 0]

\* syscalls.c:159-169
syscall_scheduler_yield(K, unused1, unused2, unused3, unused4) ==
    [K |-> [K EXCEPT !.S = scheduler_yield(K.S).S], result |-> 0]

\* syscalls.c:180-202; the copy into the caller's buffer is outside the model
syscall_get_system_info(K, info_buffer, buffer_size, unused1, unused2) ==
    IF info_buffer = 0 \/ ULt(buffer_size, SIZEOF_system_info_t)
    THEN [K |-> K, result |-> 1]
    ELSE [K |-> K, result |-> 0]

\* A handler a driver binds with syscall_register: it changes no kernel state
\* and its result tells its four arguments apart.
driver_syscall(K, arg1, arg2, arg3, arg4) ==
    [K |-> K, result |-> Add32(Add32(arg1, 2 * arg2), Add32(4 * arg3, 8 * arg4))]

\* interrupt.c:379-384: the call through the function pointer handler
CallHandler(handler, K, r) ==
    CASE handler = syscall_handlers[SYSCALL_PROCESS_CREATE] ->
             syscall_process_create(K, r[1], r[2], r[3], r[4])
      [] handler = syscall_handlers[SYSCALL_PROCESS_TERMINATE] ->
             syscall_process_terminate(K, r[1], r[2], r[3], r[4])
      [] handler = syscall_handlers[SYSCALL_MEMORY_ALLOC] ->
             syscall_memory_alloc(K, r[1], r[2], r[3], r[4])
      [] handler = syscall_handlers[SYSCALL_MEMORY_FREE] ->
             syscall_memory_free(K, r[1], r[2], r[3], r[4])
      [] handler = syscall_handlers[SYSCALL_SCHEDULER_YIELD] ->
             syscall_scheduler_yield(K, r[1], r[2], r[3], r[4])
      [] handler = syscall_handlers[SYSCALL_GET_SYSTEM_INFO] ->
             syscall_get_system_info(K, r[1], r[2], r[3], r[4])
      [] OTHER -> driver_syscall(K, r[1], r[2], r[3], r[4])

\* svc_handler calling the first handler of the table for a number out of range
svc_handler_first(I, T, K, svc_number, stack_frame) ==
    LET I1 == [I EXCEPT !.interrupt_statistics.system_calls = Add32(@, 1)]
        n == IF svc_number < SYSCALL_MAX_COUNT THEN svc_number ELSE 0
    IN  IF T[n] # NULL
        THEN LET c == CallHandler(T[n], K, stack_frame)
             IN  [I |-> I1, K |-> c.K,
                  stack_frame |-> [stack_frame EXCEPT ![1] = c.result],
                  invoked |-> T[n]]
        ELSE [I |-> I1, K |-> K,
              stack_frame |-> [stack_frame EXCEPT ![1] = SYSCALL_INVALID],
              invoked |-> NULL]

\* interrupt.c:367-393.  svc_number is the immediate of the SVC instruction,
\* stack_frame the registers R0..R3 the trap saved; the result is
\* [I, K, stack_frame, invoked]: the interrupt and kernel states after, the
\* frame the caller's registers are restored from, the handler called (NULL
\* if none).  interrupt_nesting_level is incremented and decremented.
svc_handler(I, T, K, svc_number, stack_frame) ==
    LET I1 == [I EXCEPT !.interrupt_statistics.system_calls = Add32(@, 1)]
    IN  IF svc_number < SYSCALL_MAX_COUNT /\ T[svc_number] # NULL
        THEN LET c == CallHandler(T[svc_number], K, stack_frame)
             IN  [I |-> I1, K |-> c.K,
                  stack_frame |-> [stack_frame EXCEPT ![1] = c.result],
                  invoked |-> T[svc_number]]
        ELSE [I |-> I1, K |-> K,
              stack_frame |-> [stack_frame EXCEPT ![1] = SYSCALL_INVALID],
              invoked |-> NULL]

\* interrupt.c:283-295.  regs is what R0..R3 hold when the SVC instruction
\* traps: the code loads none of them.  The result is [I, K, val, invoked,
\* result]: val is what syscall_invoke returns, result what the handler
\* returned into the trapped frame.
syscall_invoke(I, T, K, syscall, regs) ==
    IF syscall >= SYSCALL_MAX_COUNT
    THEN [I |-> I, K |-> K, val |-> SYSCALL_INVALID, invoked |-> NULL,
          result |-> SYSCALL_INVALID]
    ELSE LET r == svc_handler(I, T, K, syscall, regs)
         IN  [I |-> r.I, K |-> r.K, val |-> 0, invoked |-> r.invoked,
              result |-> r.stack_frame[1]]


(***************************************************************************)
(* The operations as actions.  ret records the call that has just          *)
(* returned: its name, argument and result, the number of times it invoked *)
(* scheduler_preempt, and what scheduler_preempt saw when it was invoked   *)
(* (the running process, the Ready PCBs, the context-switch counter).      *)
(***************************************************************************)
\* the PCBs of the process list that are Ready
ReadySet(S) ==
    {a \in Range(ProcList(S)) : S.pcb[a].state = PROCESS_STATE_READY}

\* What is kept of the call that has just returned: its name, argument and
\* return value and, when it invoked scheduler_preempt, what scheduler_preempt
\* found on entry (whether it was started and unlocked, the running process,
\* the Ready PCBs, the context-switch counter).
Ret(op, arg, val, c) ==
    LET seen == c.preempts > 0
    IN  [op |-> op, arg |-> arg, val |-> val,
         preempts |-> c.preempts,
         enabled |-> seen /\ c.at.scheduler_running /\ ~c.at.scheduler_locked,
         prev |-> IF seen THEN c.at.current_process ELSE NULL,
         prev_priority |-> IF seen /\ c.at.current_process # NULL
                           THEN c.at.pcb[c.at.current_process].priority
                           ELSE PRIORITY_IDLE,
         ready |-> IF seen THEN ReadySet(c.at) ELSE {},
         cs0 |-> IF seen THEN c.at.scheduler_statistics.context_switches ELSE 0,
         stack_size |-> 0,
         size |-> 0,
         handler |-> NULL,
         priority |-> 0,
         name |-> NULL,
         invoked |-> NULL,
         args |-> <<>>,
         result |-> 0,
         masked |-> primask,
         nblocks0 |-> Len(BlockList(HeapState))]

SetSched(S) ==
    /\ pcb' = S.pcb
    /\ process_list_head' = S.process_list_head
    /\ current_process' = S.current_process
    /\ scheduler_running' = S.scheduler_running
    /\ scheduler_locked' = S.scheduler_locked
    /\ next_process_id' = S.next_process_id
    /\ scheduler_statistics' = S.scheduler_statistics

\* Is address a in memory the allocator holds free: in the header or the
\* payload of a free block of the list?
InFreeMemory(H, a) ==
    \E b \in Range(BlockList(H)) :
        /\ H.blocks[b].is_free
        /\ b <= a
        /\ a < b + SIZEOF_memory_block_t + H.blocks[b].size

\* A freed pointer a caller still holds designates an already freed block as
\* long as its header lies in free memory; once that memory is handed out
\* again the address belongs to the later allocation and the pointer is dropped.
StaleAfter(H, st) == {q \in st : InFreeMemory(H, q - SIZEOF_memory_block_t)}

\* the headers the next links reach from heap_head
RECURSIVE Reach(_, _, _)
Reach(B, current, fuel) ==
    IF current = NULL \/ fuel = 0 \/ current \notin DOMAIN B THEN {}
    ELSE {current} \cup Reach(B, B[current].next, fuel - 1)

\* Header bytes that are neither in the block list nor behind a pointer some
\* caller still holds are never read again: they are not kept.
Forget(H, st) ==
    LET keep == Reach(H.blocks, H.heap_head, Cardinality(DOMAIN H.blocks))
                   \cup {q - SIZEOF_memory_block_t : q \in st}
    IN  [a \in DOMAIN H.blocks \cap keep |-> H.blocks[a]]

SetHeapUser(H, st) ==
    /\ heap_head' = H.heap_head
    /\ blocks' = Forget(H, st)
    /\ memory_statistics' = H.memory_statistics
    /\ stale_ptrs' = st

\* The running process holds a full quantum and ticks are counted.
FullQuantum(S) ==
    /\ S.scheduler_running
    /\ ~S.scheduler_locked
    /\ S.current_process # NULL
    /\ S.pcb[S.current_process].time_remaining = S.pcb[S.current_process].time_slice

\* no memory_alloc call is suspended
NoFrame == [active |-> FALSE, size |-> 0, current |-> NULL, seen_size |-> 0]

NoBurst == [n |-> -1, preempts |-> 0, cs0 |-> 0, others |-> FALSE]

\* burst after an operation other than scheduler_tick
ResetBurst == burst' = NoBurst

\* burst after a scheduler_tick call c made in state S: the count of
\* consecutive ticks since the running process held a full quantum, the
\* scheduler_preempt invocations among them, the context-switch counter at
\* their start, and whether the list then held a PCB besides the running one
TickBurst(S, c) ==
    IF burst.n >= 0 /\ burst.n < DEFAULT_TIME_SLICE_MS
    THEN [burst EXCEPT !.n = @ + 1, !.preempts = @ + c.preempts]
    ELSE IF FullQuantum(S)
    THEN [n |-> 1, preempts |-> c.preempts,
          cs0 |-> S.scheduler_statistics.context_switches,
          others |-> ReadySet(S) # {}]
    ELSE NoBurst

\* boot.c:82, 103, 117: the flags boot_init_clocks polls, in order: HSERDY and
\* PLLRDY of RCC_CR, SWS = PLL of RCC_CFGR
ClockPolls == <<"hse", "pll", "sws">>
ClockFlags == {ClockPolls[i] : i \in 1..Len(ClockPolls)}

\* kernel_core.c:45-91: the initialisation functions in the order kernel_init
\* calls them
BootOrder ==
    <<"boot_init_hardware", "boot_init_clocks", "boot_init_timers", "memory_init",
      "interrupt_init", "syscalls_init", "scheduler_init">>

\* What registered holds for a vector no driver has registered a handler for.
NoRegistration ==
    [set |-> FALSE, handler |-> NULL, priority |-> 0, name |-> NULL,
     disabled |-> FALSE]

Init ==
    /\ LET H == heap_init(heap_memory, HEAP_SIZE)
       IN  /\ heap_head = H.heap_head
           /\ blocks = H.blocks
           /\ memory_statistics = H.memory_statistics
    /\ user_ptrs = {}
    /\ stale_ptrs = {}
    /\ LET S == scheduler_init
       IN  /\ pcb = S.pcb
           /\ process_list_head = S.process_list_head
           /\ current_process = S.current_process
           /\ scheduler_running = S.scheduler_running
           /\ scheduler_locked = S.scheduler_locked
           /\ next_process_id = S.next_process_id
           /\ scheduler_statistics = S.scheduler_statistics
    /\ LET I == interrupt_init
       IN  /\ interrupt_table = I.interrupt_table
           /\ interrupt_statistics = I.interrupt_statistics
           /\ interrupt_nesting_level = I.interrupt_nesting_level
           /\ nvic_enabled = I.nvic_enabled
    /\ registered = [irq \in Irqs |-> NoRegistration]
    /\ syscall_table = syscalls_init
    /\ primask = FALSE
    /\ critical_nesting = 0
    /\ alloc_frame = NoFrame
    /\ system_info_state = SYSTEM_STATE_INIT
    /\ current_boot_stage = BOOT_STAGE_COMPLETE
    /\ boot_error_flag = FALSE
    /\ boot_pc = "kernel_start"
    /\ timeout = 0
    /\ boot_log = BootOrder
    /\ rcc_ready = ClockFlags
    /\ ret = Ret("kernel_init", 0, KERNEL_OK, NoPreempt(scheduler_init))
    /\ burst = NoBurst

\* memory_alloc called by kernel or driver code
MemoryAllocFrom(sizes, maxlive) ==
    \E size \in sizes :
        /\ Cardinality(user_ptrs) < maxlive
        /\ LET a == memory_alloc(HeapState, size)
           IN  /\ SetHeapUser(a.H, StaleAfter(a.H, stale_ptrs))
               /\ user_ptrs' = IF a.ptr # NULL THEN user_ptrs \cup {a.ptr} ELSE user_ptrs
               /\ ret' = Ret("memory_alloc", size, a.ptr, NoPreempt(SchedState))
        /\ ResetBurst
        /\ UNCHANGED <<intvars, sysvars, bootvars>>
        /\ UNCHANGED schedvars

MemoryAlloc == MemoryAllocFrom(AllocSizes, MaxUserAllocs)

\* main.c:36-52: kernel_start follows kernel_init at once; drivers, services
\* and applications run after it
DriverAlloc == scheduler_running /\ MemoryAllocFrom(DriverSizes, MaxDriverAllocs)

\* pointers into the middle of a live payload: no header precedes them
InteriorPtrs == {p + MEMORY_ALIGNMENT : p \in user_ptrs}

\* memory_free called with a pointer the caller holds (live or already
\* freed), a pointer that is not the start of a payload, or NULL
MemoryFreeKeeping(maxstale) ==
    \E ptr \in user_ptrs \cup stale_ptrs \cup InteriorPtrs \cup {NULL} :
        /\ LET H == memory_free(HeapState, ptr)
           IN  /\ SetHeapUser(H, IF ptr \in user_ptrs /\ Cardinality(stale_ptrs) < maxstale
                                 THEN stale_ptrs \cup {ptr}
                                 ELSE stale_ptrs)
               /\ ret' = Ret("memory_free", ptr, 0, NoPreempt(SchedState))
        /\ user_ptrs' = user_ptrs \ {ptr}
        /\ ResetBurst
        /\ UNCHANGED <<intvars, sysvars, bootvars>>
        /\ UNCHANGED schedvars

MemoryFree == MemoryFreeKeeping(MaxStale)

DriverFree == scheduler_running /\ MemoryFreeKeeping(0)

\* memory_realloc called with a live pointer the caller holds, or NULL
MemoryRealloc ==
    \E ptr \in user_ptrs \cup {NULL}, size \in AllocSizes :
        /\ ptr = NULL => Cardinality(user_ptrs) < MaxUserAllocs
        /\ LET a == memory_realloc(HeapState, ptr, size)
               freed == ptr # NULL /\ a.ptr # ptr /\ (a.ptr # NULL \/ size = 0)
               kept == IF freed THEN user_ptrs \ {ptr} ELSE user_ptrs
           IN  /\ SetHeapUser(a.H, StaleAfter(a.H,
                                   IF freed /\ Cardinality(stale_ptrs) < MaxStale
                                   THEN stale_ptrs \cup {ptr} ELSE stale_ptrs))
               /\ user_ptrs' = IF a.ptr # NULL THEN kept \cup {a.ptr} ELSE kept
               /\ ret' = [Ret("memory_realloc", ptr, a.ptr, NoPreempt(SchedState))
                             EXCEPT !.size = size]
        /\ ResetBurst
        /\ UNCHANGED <<intvars, sysvars, bootvars>>
        /\ UNCHANGED schedvars

\* kernel_start (kernel_core.c:113-124) calls scheduler_start once
SchedulerStart ==
    /\ ~scheduler_running
    /\ SetSched(scheduler_start(SchedState))
    /\ ret' = Ret("scheduler_start", 0, 0, NoPreempt(SchedState))
    /\ ResetBurst
    /\ UNCHANGED <<intvars, sysvars, bootvars>>
    /\ UNCHANGED <<heapvars, uservars>>

SchedulerTick ==
    /\ scheduler_statistics.context_switches < MaxSwitches
    /\ current_process # NULL => pcb[current_process].total_runtime < MaxRuntime
    /\ LET c == scheduler_tick(SchedState)
       IN  /\ SetSched(c.S)
           /\ ret' = Ret("scheduler_tick", 0, 0, c)
           /\ burst' = TickBurst(SchedState, c)
           /\ UNCHANGED <<intvars, sysvars, bootvars>>
    /\ UNCHANGED <<heapvars, uservars>>

SchedulerYield ==
    /\ scheduler_running
    /\ scheduler_statistics.context_switches < MaxSwitches
    /\ LET c == scheduler_yield(SchedState)
       IN  /\ SetSched(c.S)
           /\ ret' = Ret("scheduler_yield", 0, 0, c)
    /\ ResetBurst
    /\ UNCHANGED <<intvars, sysvars, bootvars>>
    /\ UNCHANGED <<heapvars, uservars>>

SchedulerPreempt ==
    /\ scheduler_running
    /\ scheduler_statistics.context_switches < MaxSwitches
    /\ LET c == WithPreempt(SchedState)
       IN  /\ SetSched(c.S)
           /\ ret' = Ret("scheduler_preempt", 0, 0, c)
    /\ ResetBurst
    /\ UNCHANGED <<intvars, sysvars, bootvars>>
    /\ UNCHANGED <<heapvars, uservars>>

ProcessCreate ==
  /\ scheduler_running
  /\
    \E ne \in {<<1, 1>>, <<NULL, 1>>, <<1, NULL>>},
       stack_size \in StackSizes, priority \in Priorities :
        /\ next_process_id <= MaxProcessId
        /\ LET r == process_create(SchedState, HeapState, ne[1], ne[2],
                                   stack_size, priority)
           IN  /\ SetSched(r.S)
               /\ SetHeapUser(r.H, StaleAfter(r.H, stale_ptrs))
               /\ ret' = [Ret("process_create",
                                 IF ne[1] # NULL /\ ne[2] # NULL THEN 1 ELSE NULL,
                                 r.id, NoPreempt(SchedState))
                             EXCEPT !.stack_size = stack_size]
        /\ ResetBurst
        /\ UNCHANGED <<intvars, sysvars, bootvars>>
        /\ UNCHANGED user_ptrs

ProcessTerminate ==
  /\ scheduler_running
  /\
    \E process_id \in 0..(MaxProcessId + 1) :
        /\ scheduler_statistics.context_switches < MaxSwitches
        /\ LET r == process_terminate(SchedState, HeapState, process_id)
               p == process_get_by_id(SchedState, process_id)
           IN  /\ SetSched(r.S)
               /\ SetHeapUser(r.H, stale_ptrs)
               /\ ret' = [Ret("process_terminate", process_id, r.status, r)
                             EXCEPT !.stack_size = IF p = NULL THEN 0 ELSE pcb[p].stack_size,
                                    !.prev = IF p # NULL /\ p = current_process
                                             THEN p ELSE NULL]
        /\ ResetBurst
        /\ UNCHANGED <<intvars, sysvars, bootvars>>
        /\ UNCHANGED user_ptrs

SchedulerLock ==
    /\ scheduler_running
    /\ SetSched(scheduler_lock(SchedState))
    /\ ret' = Ret("scheduler_lock", 0, 0, NoPreempt(SchedState))
    /\ ResetBurst
    /\ UNCHANGED <<intvars, sysvars, bootvars>>
    /\ UNCHANGED <<heapvars, uservars>>

SchedulerUnlock ==
    /\ scheduler_running
    /\ SetSched(scheduler_unlock(SchedState))
    /\ ret' = Ret("scheduler_unlock", 0, 0, NoPreempt(SchedState))
    /\ ResetBurst
    /\ UNCHANGED <<intvars, sysvars, bootvars>>
    /\ UNCHANGED <<heapvars, uservars>>

\* The heap allocator under calls of kernel and driver code.
NextMem ==
    \/ MemoryAlloc
    \/ MemoryFree
    \/ MemoryRealloc

SpecMem == Init /\ [][NextMem]_vars

\* No quantum is under way: the tick that has just been handled, if any, was
\* not one of the first time_slice - 1 ticks of a quantum.
BetweenQuanta == burst.n < 1 \/ burst.n >= DEFAULT_TIME_SLICE_MS

\* The scheduler, with processes created and terminated and drivers
\* allocating and freeing heap memory in between.  The ticks of one quantum
\* are handled back to back; the calls come between quanta.
Next ==
    \/ SchedulerStart
    \/ SchedulerTick
    \/ BetweenQuanta /\ DriverAlloc
    \/ BetweenQuanta /\ DriverFree
    \/ BetweenQuanta /\ SchedulerYield
    \/ BetweenQuanta /\ SchedulerPreempt
    \/ BetweenQuanta /\ ProcessCreate
    \/ BetweenQuanta /\ ProcessTerminate
    \/ BetweenQuanta /\ SchedulerLock
    \/ BetweenQuanta /\ SchedulerUnlock

Spec == Init /\ [][Next]_vars

\* The tick handler with calls arriving at any tick of a quantum; processes
\* give up the processor when their quantum ends.
NextTick ==
    \/ SchedulerStart
    \/ SchedulerTick
    \/ ProcessCreate
    \/ SchedulerLock
    \/ SchedulerUnlock

SpecTick == Init /\ [][NextTick]_vars

SetInt(I) ==
    /\ interrupt_table' = I.interrupt_table
    /\ interrupt_statistics' = I.interrupt_statistics
    /\ interrupt_nesting_level' = I.interrupt_nesting_level
    /\ nvic_enabled' = I.nvic_enabled

\* interrupt_register called by a driver
InterruptRegister ==
    \E irq \in IrqInputs, handler \in IrqHandlers, name \in IrqNames :
        LET r == interrupt_register(IntState, irq, handler, IRQ_PRIORITY_HIGH, name)
        IN  /\ SetInt(r.I)
            /\ ret' = [Ret("interrupt_register", irq, r.status, NoPreempt(SchedState))
                           EXCEPT !.handler = handler,
                                  !.priority = IRQ_PRIORITY_HIGH,
                                  !.name = name]
            /\ registered' =
                   IF r.status = KERNEL_OK
                   THEN [registered EXCEPT ![irq] =
                            [set |-> TRUE, handler |-> handler,
                             priority |-> IRQ_PRIORITY_HIGH, name |-> name,
                             disabled |-> FALSE]]
                   ELSE registered
            /\ ResetBurst
            /\ primask' = IF r.status = KERNEL_OK THEN irq_restore(primask) ELSE primask
            /\ UNCHANGED <<heapvars, uservars, schedvars, syscall_table, critical_nesting, alloc_frame,
                           bootvars>>

InterruptUnregister ==
    \E irq \in IrqInputs :
        LET r == interrupt_unregister(IntState, irq)
        IN  /\ SetInt(r.I)
            /\ ret' = Ret("interrupt_unregister", irq, r.status, NoPreempt(SchedState))
            /\ registered' =
                   IF r.status = KERNEL_OK
                   THEN [registered EXCEPT ![irq] = NoRegistration]
                   ELSE registered
            /\ ResetBurst
            /\ primask' = IF r.status = KERNEL_OK THEN irq_restore(primask) ELSE primask
            /\ UNCHANGED <<heapvars, uservars, schedvars, syscall_table, critical_nesting, alloc_frame,
                           bootvars>>

InterruptEnable ==
    \E irq \in IrqInputs :
        LET r == interrupt_enable(IntState, irq)
        IN  /\ SetInt(r.I)
            /\ ret' = Ret("interrupt_enable", irq, r.status, NoPreempt(SchedState))
            /\ UNCHANGED registered
            /\ ResetBurst
            /\ UNCHANGED <<heapvars, uservars, schedvars, sysvars, bootvars>>

InterruptDisable ==
    \E irq \in IrqInputs :
        LET r == interrupt_disable(IntState, irq)
        IN  /\ SetInt(r.I)
            /\ ret' = Ret("interrupt_disable", irq, r.status, NoPreempt(SchedState))
            /\ registered' =
                   IF r.status = KERNEL_OK /\ registered[irq].set
                   THEN [registered EXCEPT ![irq].disabled = TRUE]
                   ELSE registered
            /\ ResetBurst
            /\ UNCHANGED <<heapvars, uservars, schedvars, sysvars, bootvars>>

\* A vector stub calls interrupt_common_handler: for a vector of the table
\* when the NVIC has it enabled, or with a number beyond the table.
InterruptDispatch ==
    \E irq \in IrqInputs :
        /\ irq \in Irqs => irq \in nvic_enabled
        /\ ULt(interrupt_statistics.total_interrupts, MaxDispatches)
        /\ LET r == interrupt_common_handler(IntState, irq)
           IN  /\ SetInt(r.I)
               /\ ret' = [Ret("interrupt_common_handler", irq, 0, NoPreempt(SchedState))
                              EXCEPT !.invoked = r.invoked]
        /\ UNCHANGED registered
        /\ ResetBurst
        /\ UNCHANGED <<heapvars, uservars, schedvars, sysvars, bootvars>>

NextInt ==
    \/ InterruptRegister
    \/ InterruptUnregister
    \/ InterruptEnable
    \/ InterruptDisable
    \/ InterruptDispatch

SpecInt == Init /\ [][NextInt]_vars

SetKernel(K, live) ==
    /\ SetSched(K.S)
    /\ SetHeapUser(K.H, StaleAfter(K.H, stale_ptrs))
    /\ user_ptrs' = live

\* syscall_register called by a driver.  The write is made between
\* __disable_irq and the restoring of PRIMASK (interrupt.c:261-268).
SyscallRegister ==
    \E syscall \in SyscallSlots, handler \in SyscallHandlers :
        LET r == syscall_register(syscall_table, syscall, handler)
        IN  /\ syscall_table' = r.T
            /\ ret' = [Ret("syscall_register", syscall, r.status, NoPreempt(SchedState))
                           EXCEPT !.handler = handler,
                                  !.masked = TRUE]
            /\ ResetBurst
            /\ primask' = IF r.status = KERNEL_OK THEN irq_restore(primask) ELSE primask
            /\ UNCHANGED <<heapvars, uservars, schedvars, intvars, critical_nesting, alloc_frame, bootvars>>

\* The pointers callers hold after a system call that went to handler with
\* the registers r and gave result seen (what the caller sees of it).
LiveAfter(handler, r, seen) ==
    IF handler = syscall_handlers[SYSCALL_MEMORY_ALLOC] /\ seen # 0
    THEN user_ptrs \cup {seen}
    ELSE IF handler = syscall_handlers[SYSCALL_MEMORY_FREE]
    THEN user_ptrs \ {r[1]}
    ELSE user_ptrs

\* User code executes an SVC instruction with the registers R0..R3 loaded.
SvcTrap ==
    \E svc_number \in SvcNumbers,
       stack_frame \in SvcFrames \cup {<<ptr, 0, 0, 0>> : ptr \in user_ptrs} :
        /\ ULt(interrupt_statistics.system_calls, MaxSyscalls)
        /\ \E r \in {svc_handler(IntState, syscall_table, KernelState, svc_number,
                                stack_frame)} :
               /\ SetInt(r.I)
               /\ SetKernel(r.K, LiveAfter(r.invoked, stack_frame, r.stack_frame[1]))
               /\ ret' = [Ret("svc_handler", svc_number, r.stack_frame[1],
                              NoPreempt(SchedState))
                              EXCEPT !.invoked = r.invoked,
                                     !.args = stack_frame,
                                     !.result = r.stack_frame[1]]
        /\ ResetBurst
        /\ UNCHANGED <<registered, sysvars, bootvars>>

\* Kernel or driver code calls syscall_invoke.  R0..R3 at the SVC instruction
\* are what the build left in them: the arguments of syscall_invoke as they
\* arrived (syscall, arg1, arg2, arg3), or arg1..arg4.
SyscallInvoke ==
    \E syscall \in SyscallInputs,
       a \in SvcFrames \cup {<<ptr, 0, 0, 0>> : ptr \in user_ptrs} :
      \E regs \in {<<syscall, a[1], a[2], a[3]>>, a} :
        /\ ULt(interrupt_statistics.system_calls, MaxSyscalls)
        /\ \E r \in {syscall_invoke(IntState, syscall_table, KernelState, syscall, regs)} :
               /\ SetInt(r.I)
               /\ SetKernel(r.K, LiveAfter(r.invoked, regs, r.val))
               /\ ret' = [Ret("syscall_invoke", syscall, r.val, NoPreempt(SchedState))
                              EXCEPT !.invoked = r.invoked,
                                     !.args = a,
                                     !.result = r.result]
        /\ ResetBurst
        /\ UNCHANGED <<registered, sysvars, bootvars>>

\* Registration of interrupt and system-call handlers.
NextReg ==
    \/ InterruptRegister
    \/ SyscallRegister

SpecReg == Init /\ [][NextReg]_vars

\* System calls, with drivers binding handlers of their own.
NextSvc ==
    \/ SyscallRegister
    \/ SvcTrap
    \/ SyscallInvoke

SpecSvc == Init /\ [][NextSvc]_vars

\* interrupt.c:308-311
InterruptGlobalDisable ==
    /\ primask' = TRUE
    /\ ret' = Ret("interrupt_global_disable", 0, 0, NoPreempt(SchedState))
    /\ ResetBurst
    /\ UNCHANGED <<heapvars, uservars, schedvars, intvars, syscall_table, critical_nesting, alloc_frame,
                   bootvars>>

\* interrupt.c:300-303
InterruptGlobalEnable ==
    /\ primask' = FALSE
    /\ ret' = Ret("interrupt_global_enable", 0, 0, NoPreempt(SchedState))
    /\ ResetBurst
    /\ UNCHANGED <<heapvars, uservars, schedvars, intvars, syscall_table, critical_nesting, alloc_frame,
                   bootvars>>

\* Drivers allocating, freeing, enabling and disabling vectors and binding
\* system calls, inside and outside sections with interrupts masked.
NextCrit ==
    \/ InterruptGlobalDisable
    \/ InterruptGlobalEnable
    \/ MemoryAllocFrom(DriverSizes, MaxDriverAllocs)
    \/ MemoryFreeKeeping(0)
    \/ InterruptEnable
    \/ InterruptDisable
    \/ SyscallRegister

SpecCrit == Init /\ [][NextCrit]_vars

\* kernel_core.c:211-215; C is [primask, critical_nesting]
kernel_enter_critical(C) ==
    [primask |-> TRUE, critical_nesting |-> Add32(C.critical_nesting, 1)]

\* kernel_core.c:222-230
kernel_exit_critical(C) ==
    IF UGt(C.critical_nesting, 0)
    THEN LET n == Sub32(C.critical_nesting, 1)
         IN  [primask |-> IF n = 0 THEN FALSE ELSE C.primask, critical_nesting |-> n]
    ELSE C

CritState == [primask |-> primask, critical_nesting |-> critical_nesting]

KernelEnterCritical ==
    /\ critical_nesting < MaxNesting
    /\ LET c == kernel_enter_critical(CritState)
       IN  /\ primask' = c.primask
           /\ critical_nesting' = c.critical_nesting
    /\ ret' = Ret("kernel_enter_critical", 0, 0, NoPreempt(SchedState))
    /\ ResetBurst
    /\ UNCHANGED <<heapvars, uservars, schedvars, intvars, syscall_table, alloc_frame,
                   bootvars>>

KernelExitCritical ==
    /\ LET c == kernel_exit_critical(CritState)
       IN  /\ primask' = c.primask
           /\ critical_nesting' = c.critical_nesting
    /\ ret' = Ret("kernel_exit_critical", 0, 0, NoPreempt(SchedState))
    /\ ResetBurst
    /\ UNCHANGED <<heapvars, uservars, schedvars, intvars, syscall_table, alloc_frame,
                   bootvars>>

InterruptSetPriority ==
    \E irq \in IrqInputs, priority \in {IRQ_PRIORITY_HIGH, IRQ_PRIORITY_NORMAL} :
        LET r == interrupt_set_priority(IntState, irq, priority)
        IN  /\ SetInt(r.I)
            /\ ret' = [Ret("interrupt_set_priority", irq, r.status, NoPreempt(SchedState))
                           EXCEPT !.priority = priority]
            /\ UNCHANGED registered
            /\ ResetBurst
            /\ primask' = IF r.status = KERNEL_OK THEN irq_restore(primask) ELSE primask
            /\ UNCHANGED <<heapvars, uservars, schedvars, syscall_table, critical_nesting, alloc_frame,
                           bootvars>>

\* Kernel and driver code entering and leaving critical sections, nested up
\* to MaxNesting deep, masking and unmasking interrupts directly, and
\* registering handlers inside and outside the sections.  Vectors are
\* registered without a name, and system calls are bound to the first slot
\* or to none.
NextNest ==
    \/ KernelEnterCritical
    \/ KernelExitCritical
    \/ InterruptGlobalDisable
    \/ InterruptGlobalEnable
    \/ InterruptRegister /\ ret'.name = NULL
    \/ InterruptUnregister
    \/ InterruptSetPriority
    \/ SyscallRegister /\ ret'.arg # SYSCALL_GET_SYSTEM_INFO

SpecNest == Init /\ [][NextNest]_vars

(***************************************************************************)
(* memory_alloc interrupted between its scan and its writes.  memory_alloc *)
(* masks nothing, so a handler can run once the scan (memory.c:119-126)    *)
(* has chosen a block and before the block is split and marked             *)
(* (memory.c:132-152).  The handler's own memory_alloc runs to its end.    *)
(***************************************************************************)
\* memory.c:110-130: the interrupted call up to the end of its scan; a call
\* that returns NULL before is over at once
AllocBegin ==
    \E reqsize \in AllocSizes :
        /\ ~alloc_frame.active
        /\ Cardinality(user_ptrs) < MaxUserAllocs
        /\ LET size == ALIGN_SIZE(reqsize)
               current == FindFree(blocks, heap_head, size, Cardinality(DOMAIN blocks) + 1)
           IN  IF reqsize = 0 \/ current = NULL
               THEN /\ ret' = Ret("memory_alloc", reqsize, NULL, NoPreempt(SchedState))
                    /\ UNCHANGED alloc_frame
               ELSE /\ alloc_frame' = [active |-> TRUE, size |-> size, current |-> current,
                                       seen_size |-> blocks[current].size]
                    /\ ret' = Ret("memory_alloc_scan", reqsize, current, NoPreempt(SchedState))
        /\ ResetBurst
        /\ UNCHANGED <<heapvars, uservars, schedvars, intvars, syscall_table, primask,
                       critical_nesting, bootvars>>

\* memory.c:132-168: the handler has returned and the interrupted call goes
\* on.  current->size was read in the scan and is not volatile: the build may
\* read it again or use the value it has in a register.
AllocResume ==
    /\ alloc_frame.active
    /\ \E cur_size \in {blocks[alloc_frame.current].size, alloc_frame.seen_size} :
         \E a \in {memory_alloc_resume(HeapState, alloc_frame.current, alloc_frame.size,
                                       cur_size)} :
           /\ SetHeapUser(a.H, StaleAfter(a.H, stale_ptrs))
           /\ user_ptrs' = user_ptrs \cup {a.ptr}
           /\ ret' = Ret("memory_alloc", alloc_frame.size, a.ptr, NoPreempt(SchedState))
    /\ alloc_frame' = NoFrame
    /\ ResetBurst
    /\ UNCHANGED <<schedvars, intvars, syscall_table, primask, critical_nesting, bootvars>>

\* memory_alloc calls of kernel or driver code and the memory_alloc calls of
\* interrupt handlers that run while it is suspended.
\* The calls are followed as long as every next link of the list
\* leads to a header; past that the allocator reads payload bytes as headers.
LinksSound ==
    LET l == BlockList(HeapState)
    IN  /\ \A i \in 1..Len(l) :
               /\ l[i] \in DOMAIN blocks
               /\ blocks[l[i]].next \in DOMAIN blocks \cup {NULL}
               /\ blocks[l[i]].prev \in DOMAIN blocks \cup {NULL}
        /\ \A i \in 1..(Len(l) - 1) : l[i] < l[i + 1]
        /\ Len(l) >= 1 => blocks[l[Len(l)]].next = NULL

NextRace ==
    \/ LinksSound /\ AllocBegin
    \/ LinksSound /\ alloc_frame.active /\ MemoryAlloc
    \/ LinksSound /\ AllocResume

SpecRace == Init /\ [][NextRace]_vars

\* request sizes over the whole range of uint32_t: the smallest, both sides of
\* the largest payload of the heap, 2^31 - 1, and 0xFFFFFFF8, 0xFFFFFFF9 and
\* 0xFFFFFFFF, the last ones ALIGN_SIZE adds MEMORY_ALIGNMENT - 1 to
WideSizes == {1, HEAP_SIZE - SIZEOF_memory_block_t, HEAP_SIZE - SIZEOF_memory_block_t + 1,
              INT32_MAX, -MEMORY_ALIGNMENT, 1 - MEMORY_ALIGNMENT, -1}

\* memory_alloc called with a request size of any magnitude
MemoryAllocWide == MemoryAllocFrom(WideSizes, MaxUserAllocs)

NextWide ==
    \/ MemoryAllocWide
    \/ MemoryFree

SpecWide == Init /\ [][NextWide]_vars

(***************************************************************************)
(* The scheduler with SysTick interrupts arriving forever.  The counters   *)
(* total_runtime and context_switches, which only grow and which nothing   *)
(* in the scheduler reads, are kept modulo CounterModulus instead of 2^32. *)
(***************************************************************************)
Wrapped(S) ==
    [S EXCEPT !.pcb = [a \in DOMAIN S.pcb |->
                          [S.pcb[a] EXCEPT !.total_runtime = @ % CounterModulus]],
              !.scheduler_statistics.context_switches = @ % CounterModulus]

\* priorities of the processes created here
PeerPriorities == {1, 2}

\* kernel_tick_handler (kernel_core.c:175-184) calls scheduler_tick
LiveTick ==
    /\ scheduler_running
    /\ \E c \in {scheduler_tick(SchedState)} :
           /\ SetSched(Wrapped(c.S))
           /\ ret' = Ret("scheduler_tick", 0, 0, [c EXCEPT !.at = Wrapped(c.at)])
    /\ ResetBurst
    /\ UNCHANGED <<intvars, sysvars, bootvars>>
    /\ UNCHANGED <<heapvars, uservars>>

LiveCreate ==
    \E priority \in PeerPriorities :
        /\ next_process_id <= MaxPeers
        /\ \E r \in {process_create(SchedState, HeapState, 1, 1, MIN_STACK_SIZE, priority)} :
               /\ SetSched(r.S)
               /\ SetHeapUser(r.H, StaleAfter(r.H, stale_ptrs))
               /\ ret' = [Ret("process_create", 1, r.id, NoPreempt(SchedState))
                             EXCEPT !.stack_size = MIN_STACK_SIZE, !.priority = priority]
        /\ ResetBurst
        /\ UNCHANGED <<intvars, sysvars, bootvars>>
        /\ UNCHANGED user_ptrs

LiveTerminate ==
    \E process_id \in 1..MaxPeers :
        /\ \E r \in {process_terminate(SchedState, HeapState, process_id)} :
               /\ SetSched(Wrapped(r.S))
               /\ SetHeapUser(r.H, stale_ptrs)
               /\ ret' = [Ret("process_terminate", process_id, r.status,
                              [r EXCEPT !.at = Wrapped(r.at)])
                             EXCEPT !.prev = IF r.status = KERNEL_OK
                                                /\ current_process # NULL
                                                /\ pcb[current_process].process_id = process_id
                                             THEN current_process ELSE NULL]
        /\ ResetBurst
        /\ UNCHANGED <<intvars, sysvars, bootvars>>
        /\ UNCHANGED user_ptrs

NextLive ==
    \/ SchedulerStart
    \/ LiveTick
    \/ LiveCreate
    \/ LiveTerminate
    \/ SchedulerLock
    \/ SchedulerUnlock

\* SysTick keeps interrupting: a tick that can be handled is handled.
SpecLive == Init /\ [][NextLive]_vars /\ WF_vars(LiveTick)

\* Processes created one after another, with some of the first ones
\* terminated in between, until the process list is longer than the table
\* the configuration provides for.
CapCreate ==
    \E ne \in {<<1, 1>>, <<NULL, 1>>}, priority \in {MaxPriority} :
        /\ next_process_id <= MaxCreated
        /\ \E r \in {process_create(SchedState, HeapState, ne[1], ne[2],
                                    MIN_STACK_SIZE, priority)} :
               /\ SetSched(r.S)
               /\ SetHeapUser(r.H, StaleAfter(r.H, stale_ptrs))
               /\ ret' = [Ret("process_create", ne[1], r.id, NoPreempt(SchedState))
                             EXCEPT !.stack_size = MIN_STACK_SIZE, !.priority = priority]
        /\ ResetBurst
        /\ UNCHANGED <<intvars, sysvars, bootvars>>
        /\ UNCHANGED user_ptrs

CapTerminate ==
    \E process_id \in 1..MaxTerminateId :
        /\ \E r \in {process_terminate(SchedState, HeapState, process_id)} :
               /\ SetSched(r.S)
               /\ SetHeapUser(r.H, stale_ptrs)
               /\ ret' = Ret("process_terminate", process_id, r.status, r)
        /\ ResetBurst
        /\ UNCHANGED <<intvars, sysvars, bootvars>>
        /\ UNCHANGED user_ptrs

NextCap ==
    \/ CapCreate
    \/ CapTerminate

SpecCap == Init /\ [][NextCap]_vars

(***************************************************************************)
(* The boot sequence: main() calling kernel_init and kernel_start, one     *)
(* action per initialisation function and one per poll of a clock flag.    *)
(* boot_pc is the step main() is about to take.  SysTick interrupts, which *)
(* boot_init_timers enables, find scheduler_running false until            *)
(* kernel_start and are left out.                                          *)
(***************************************************************************)
\* The statics as the startup code leaves them before main().
InitBoot ==
    /\ heap_head = NULL
    /\ blocks = [a \in {} |-> NULL]
    /\ memory_statistics = [total_memory |-> 0, free_memory |-> 0, used_memory |-> 0]
    /\ user_ptrs = {}
    /\ stale_ptrs = {}
    /\ pcb = (idle_pcb :> [f \in DOMAIN scheduler_init.pcb[idle_pcb] |-> 0])
    /\ process_list_head = NULL
    /\ current_process = NULL
    /\ scheduler_running = FALSE
    /\ scheduler_locked = FALSE
    /\ next_process_id = 1
    /\ scheduler_statistics = [total_processes |-> 0, active_processes |-> 0,
                               context_switches |-> 0]
    /\ interrupt_table = [irq \in Irqs |-> [irq_number |-> 0, handler |-> NULL,
                                            priority |-> 0, enabled |-> FALSE,
                                            count |-> 0, name |-> <<>>]]
    /\ interrupt_statistics = [f \in DOMAIN interrupt_init.interrupt_statistics |-> 0]
    /\ interrupt_nesting_level = 0
    /\ nvic_enabled = {}
    /\ registered = [irq \in Irqs |-> NoRegistration]
    /\ syscall_table = [n \in DOMAIN syscall_handlers |-> NULL]
    /\ primask = FALSE
    /\ critical_nesting = 0
    /\ alloc_frame = NoFrame
    /\ system_info_state = SYSTEM_STATE_BOOT
    /\ current_boot_stage = BOOT_STAGE_START
    /\ boot_error_flag = FALSE
    /\ boot_pc = "boot_init_hardware"
    /\ timeout = 0
    /\ boot_log = <<>>
    /\ rcc_ready = {}
    /\ ret = Ret("reset", 0, KERNEL_OK, NoPreempt(SchedState))
    /\ burst = NoBurst

\* kernel_init going on after a step whatever its status
Continue_always(step, status, next) ==
    /\ boot_pc' = next
    /\ UNCHANGED system_info_state
    /\ ret' = Ret(step, 0, status, NoPreempt(SchedState))

\* kernel_core.c:46-50 and alike: what kernel_init and main() do with the
\* status step has returned: on failure the error state, the return of the
\* status and the halt of main (main.c:37-42), otherwise the step next.
Continue(step, status, next) ==
    IF status # KERNEL_OK
    THEN /\ system_info_state' = SYSTEM_STATE_ERROR
         /\ boot_pc' = "halted"
         /\ ret' = Ret("kernel_init", 0, status, NoPreempt(SchedState))
    ELSE /\ boot_pc' = next
         /\ UNCHANGED system_info_state
         /\ ret' = Ret(step, 0, status, NoPreempt(SchedState))

\* main.c:36, kernel_core.c:37-50, boot.c:49-63
BootInitHardware ==
    /\ boot_pc = "boot_init_hardware"
    /\ boot_log' = Append(boot_log, "boot_init_hardware")
    /\ current_boot_stage' = BOOT_STAGE_HARDWARE_INIT
    /\ boot_pc' = "boot_init_clocks"
    /\ system_info_state' = SYSTEM_STATE_BOOT
    /\ ret' = Ret("boot_init_hardware", 0, KERNEL_OK, NoPreempt(SchedState))
    /\ UNCHANGED <<heapvars, uservars, schedvars, intvars, sysvars, boot_error_flag,
                   timeout, rcc_ready, burst>>

\* kernel_core.c:53, boot.c:72-79: boot_init_clocks up to its first loop
BootInitClocks ==
    /\ boot_pc = "boot_init_clocks"
    /\ boot_log' = Append(boot_log, "boot_init_clocks")
    /\ current_boot_stage' = BOOT_STAGE_CLOCK_INIT
    /\ timeout' = CLOCK_TIMEOUT
    /\ boot_pc' = ClockPolls[1]
    /\ UNCHANGED <<heapvars, uservars, schedvars, intvars, sysvars, system_info_state,
                   boot_error_flag, rcc_ready, ret, burst>>

\* the loop after ClockPolls[i]: its name and the timeout it starts with, or
\* the return of boot_init_clocks (boot.c:102, 116, 126)
AfterPoll(i, status) ==
    IF i < Len(ClockPolls)
    THEN /\ boot_pc' = ClockPolls[i + 1]
         /\ timeout' = CLOCK_TIMEOUT
         /\ UNCHANGED <<system_info_state, ret>>
    ELSE /\ Continue("boot_init_clocks", status, "boot_init_timers")
         /\ timeout' = 0

\* boot.c:82-89, 103-110, 117-124: one evaluation of the condition of a
\* polling loop, `!(flag) && timeout--`, with the test after the loop when
\* the loop ends.  The hardware may have set the flag by now or not.
BootPoll ==
    \E i \in 1..Len(ClockPolls), ready \in BOOLEAN :
        /\ boot_pc = ClockPolls[i]
        /\ ClockPolls[i] \in rcc_ready => ready
        /\ rcc_ready' = IF ready THEN rcc_ready \cup {ClockPolls[i]} ELSE rcc_ready
        /\ IF ~ready /\ timeout # 0
           THEN \* the loop body: poll again
                /\ timeout' = Sub32(timeout, 1)
                /\ UNCHANGED <<boot_pc, boot_error_flag, system_info_state, ret>>
           ELSE LET left == IF ready THEN timeout ELSE Sub32(timeout, 1)
                IN  IF left = 0
                    THEN /\ boot_error_flag' = TRUE
                         /\ timeout' = 0
                         /\ Continue("boot_init_clocks", KERNEL_ERROR_TIMEOUT, "boot_init_timers")
                    ELSE /\ UNCHANGED boot_error_flag
                         /\ AfterPoll(i, KERNEL_OK)
        /\ UNCHANGED <<heapvars, uservars, schedvars, intvars, sysvars,
                       current_boot_stage, boot_log, burst>>

\* kernel_core.c:60-64, boot.c:136-148
BootInitTimers ==
    /\ boot_pc = "boot_init_timers"
    /\ boot_log' = Append(boot_log, "boot_init_timers")
    /\ Continue("boot_init_timers", KERNEL_OK, "memory_init")
    /\ UNCHANGED <<heapvars, uservars, schedvars, intvars, sysvars, current_boot_stage,
                   boot_error_flag, timeout, rcc_ready, burst>>

\* kernel_core.c:67-72, memory.c:43-76
BootMemoryInit ==
    /\ boot_pc = "memory_init"
    /\ boot_log' = Append(boot_log, "memory_init")
    /\ current_boot_stage' = BOOT_STAGE_MEMORY_INIT
    /\ LET H == heap_init(heap_memory, HEAP_SIZE)
       IN  /\ heap_head' = H.heap_head
           /\ blocks' = H.blocks
           /\ memory_statistics' = H.memory_statistics
    /\ Continue("memory_init", KERNEL_OK, "interrupt_init")
    /\ UNCHANGED <<uservars, schedvars, intvars, sysvars, boot_error_flag, timeout,
                   rcc_ready, burst>>

\* kernel_core.c:75-80, interrupt.c:50-83
BootInterruptInit ==
    /\ boot_pc = "interrupt_init"
    /\ boot_log' = Append(boot_log, "interrupt_init")
    /\ current_boot_stage' = BOOT_STAGE_INTERRUPT_INIT
    /\ SetInt(interrupt_init)
    /\ syscall_table' = [n \in DOMAIN syscall_table |-> NULL]
    /\ Continue("interrupt_init", KERNEL_OK, "syscalls_init")
    /\ UNCHANGED <<heapvars, uservars, schedvars, registered, primask, critical_nesting, alloc_frame,
                   boot_error_flag,
                   timeout, rcc_ready, burst>>

\* syscalls.c:29-53: the six registrations, each returning at once on failure;
\* the result is [T, status]
RECURSIVE RegisterFrom(_, _)
RegisterFrom(T, n) ==
    IF n >= SYSCALL_MAX_COUNT THEN [T |-> T, status |-> KERNEL_OK]
    ELSE LET r == syscall_register(T, n, syscall_handlers[n])
         IN  IF r.status # KERNEL_OK THEN r ELSE RegisterFrom(r.T, n + 1)

\* kernel_core.c:83-87
BootSyscallsInit ==
    /\ boot_pc = "syscalls_init"
    /\ boot_log' = Append(boot_log, "syscalls_init")
    /\ LET r == RegisterFrom(syscall_table, 0)
       IN  /\ syscall_table' = r.T
           /\ Continue("syscalls_init", r.status, "scheduler_init")
    /\ UNCHANGED <<heapvars, uservars, schedvars, intvars, primask, critical_nesting, alloc_frame,
                   current_boot_stage,
                   boot_error_flag, timeout, rcc_ready, burst>>

\* kernel_core.c:90-103, scheduler.c:51-82: the last step and the return of
\* kernel_init
BootSchedulerInit ==
    /\ boot_pc = "scheduler_init"
    /\ boot_log' = Append(boot_log, "scheduler_init")
    /\ current_boot_stage' = BOOT_STAGE_COMPLETE
    /\ SetSched(scheduler_init)
    /\ system_info_state' = SYSTEM_STATE_INIT
    /\ boot_pc' = "kernel_start"
    /\ ret' = Ret("kernel_init", 0, KERNEL_OK, NoPreempt(scheduler_init))
    /\ UNCHANGED <<heapvars, uservars, intvars, sysvars, boot_error_flag, timeout,
                   rcc_ready, burst>>

\* main.c:45-51, kernel_core.c:113-124
KernelStart ==
    /\ boot_pc = "kernel_start"
    /\ IF system_info_state # SYSTEM_STATE_INIT
       THEN /\ boot_pc' = "halted"
            /\ ret' = Ret("kernel_start", 0, KERNEL_ERROR, NoPreempt(SchedState))
            /\ UNCHANGED <<schedvars, system_info_state>>
       ELSE /\ SetSched(scheduler_start(SchedState))
            /\ system_info_state' = SYSTEM_STATE_RUNNING
            /\ boot_pc' = "running"
            /\ ret' = Ret("kernel_start", 0, KERNEL_OK, NoPreempt(SchedState))
    /\ UNCHANGED <<heapvars, uservars, intvars, sysvars, current_boot_stage,
                   boot_error_flag, timeout, boot_log, rcc_ready, burst>>

NextBoot ==
    \/ BootInitHardware
    \/ BootInitClocks
    \/ BootPoll
    \/ BootInitTimers
    \/ BootMemoryInit
    \/ BootInterruptInit
    \/ BootSyscallsInit
    \/ BootSchedulerInit
    \/ KernelStart

SpecBoot == InitBoot /\ [][NextBoot]_vars


(***************************************************************************)
(* Properties of the scheduler                                             *)
(***************************************************************************)
RunningSet == {a \in Range(ProcList(SchedState)) : pcb[a].state = PROCESS_STATE_RUNNING}

\* the call that has just returned invoked scheduler_preempt with the
\* scheduler started and unlocked
PreemptRan == ret.preempts = 1 /\ ret.enabled

\* ... and scheduler_preempt switched to another process
PreemptSwitched ==
    /\ PreemptRan
    /\ scheduler_statistics.context_switches = ret.cs0 + 1

\* the Ready PCBs scheduler_preempt saw that had the highest priority among them
TopReady == {a \in ret.ready : \A b \in ret.ready : pcb[a].priority >= pcb[b].priority}

\* position of a PCB in the process list (1 = head)
ListPos(a) ==
    LET l == ProcList(SchedState)
    IN  CHOOSE i \in 1..Len(l) : l[i] = a

\* C1: once the scheduler is started, exactly one PCB of the process list is
\* Running, and it is the one current_process points to.
C1_ExactlyOneRunning ==
    scheduler_running =>
        /\ current_process # NULL
        /\ RunningSet = {current_process}

\* C2: when scheduler_preempt, started and unlocked, switches to another
\* process, the process made Running has a priority >= that of every PCB
\* that was Ready in the list when it was called.
C2_PreemptPicksHighestPriority ==
    PreemptSwitched =>
        /\ current_process # NULL
        /\ pcb[current_process].state = PROCESS_STATE_RUNNING
        /\ \A a \in ret.ready : pcb[current_process].priority >= pcb[a].priority

C2_Witness ==
    /\ PreemptSwitched
    /\ \E a, b \in ret.ready : pcb[a].priority < pcb[b].priority

C4_RunningIsCandidate ==
    (/\ PreemptRan
     /\ ret.op \in {"scheduler_tick", "scheduler_yield"}
     /\ ret.prev # NULL
     /\ \A a \in ret.ready : ret.prev_priority > pcb[a].priority) =>
        /\ current_process = ret.prev
        /\ pcb[current_process].state = PROCESS_STATE_RUNNING
        /\ scheduler_statistics.context_switches = ret.cs0
        /\ pcb[current_process].time_remaining = pcb[current_process].time_slice


\* a run of exactly time_slice consecutive ticks has just completed, begun
\* with the scheduler started and unlocked and a full quantum
BurstComplete == burst.n = DEFAULT_TIME_SLICE_MS

\* C5 as claimed: time_slice ticks on an otherwise idle system invoke
\* scheduler_preempt exactly once, on the last tick, and raise the
\* context-switch counter by exactly one, also when idle is the only PCB.
C5_OnePreemptOneSwitch ==
    /\ (burst.n >= 0 /\ burst.n < DEFAULT_TIME_SLICE_MS) =>
           /\ burst.preempts = 0
           /\ burst.n > 0 => scheduler_statistics.context_switches = burst.cs0
    /\ BurstComplete =>
           /\ burst.preempts = 1
           /\ scheduler_statistics.context_switches = burst.cs0 + 1

\* C5 as the code has it: time_slice ticks invoke scheduler_preempt exactly
\* once, on the last tick; the context-switch counter rises by exactly one
\* when the process list holds a Ready PCB, and keeps its value when it holds
\* none (the idle process running alone).
C5_OnePreemptSwitchIfOthers ==
    /\ (burst.n >= 0 /\ burst.n < DEFAULT_TIME_SLICE_MS) =>
           /\ burst.preempts = 0
           /\ burst.n > 0 => scheduler_statistics.context_switches = burst.cs0
    /\ BurstComplete =>
           /\ burst.preempts = 1
           /\ burst.others =>
                  scheduler_statistics.context_switches = burst.cs0 + 1
           /\ ~burst.others =>
                  /\ scheduler_statistics.context_switches = burst.cs0
                  /\ current_process = idle_pcb
                  /\ Range(ProcList(SchedState)) = {idle_pcb}

C5_Witness ==
    /\ BurstComplete
    /\ burst.others
    /\ current_process # idle_pcb

\* C6: when process_terminate is accepted for the Running process, on return
\* current_process is non-null, Running, and has the highest priority among
\* the PCBs that were Ready (the idle PCB if none was).
C6_TerminateRunningReschedules ==
    (/\ ret.op = "process_terminate"
     /\ ret.val = KERNEL_OK
     /\ ret.prev # NULL) =>
        /\ current_process # NULL
        /\ pcb[current_process].state = PROCESS_STATE_RUNNING
        /\ \A a \in ret.ready : pcb[current_process].priority >= pcb[a].priority
        /\ ret.ready = {} => current_process = idle_pcb

\* C7: after process_terminate succeeded for a process whose stack had size
\* S, a memory_alloc of any size s with 0 < s <= S returns a non-null pointer.
C7_StackMemoryReusable ==
    (ret.op = "process_terminate" /\ ret.val = KERNEL_OK) =>
        \A s \in {1, ret.stack_size \div 2, ret.stack_size - 1, ret.stack_size} :
            memory_alloc(HeapState, s).ptr # NULL

\* the process with the large stack was terminated while another process
\* lives on: the freed stack is the only block large enough
C7_Witness ==
    /\ ret.op = "process_terminate"
    /\ ret.val = KERNEL_OK
    /\ ret.stack_size = 31000
    /\ Len(ProcList(SchedState)) >= 2
    /\ Cardinality({b \in Range(BlockList(HeapState)) :
                        blocks[b].is_free /\ blocks[b].size >= ret.stack_size}) = 1


(***************************************************************************)
(* Properties of the heap allocator                                        *)
(***************************************************************************)
\* C8: the block list is contiguous and address-ordered: it starts at the
\* arena start, each successor starts at block address + header size + block
\* size, the last block ends at the arena end, and prev is the inverse of next.
C8_ListContiguous ==
    LET l == BlockList(HeapState)
        n == Len(l)
    IN  /\ n >= 1
        /\ l[1] = heap_memory
        /\ blocks[l[1]].prev = NULL
        /\ blocks[l[n]].next = NULL
        /\ l[n] + SIZEOF_memory_block_t + blocks[l[n]].size = heap_memory + HEAP_SIZE
        /\ \A i \in 1..(n - 1) :
               /\ l[i + 1] = l[i] + SIZEOF_memory_block_t + blocks[l[i]].size
               /\ blocks[l[i + 1]].prev = l[i]

\* a realloc that moved its block (an alloc with a split, then a free) has
\* left a list of several blocks with a free block before a live one
C8_Witness ==
    /\ ret.op = "memory_realloc"
    /\ ret.arg # NULL
    /\ ret.val # NULL
    /\ ret.val # ret.arg
    /\ LET l == BlockList(HeapState)
       IN  /\ Len(l) >= 3
           /\ \E i \in 1..(Len(l) - 1) : blocks[l[i]].is_free /\ ~blocks[l[i + 1]].is_free

\* C9: free_memory + used_memory = total_memory in 32-bit unsigned arithmetic.
C9_StatsSum ==
    Add32(memory_statistics.free_memory, memory_statistics.used_memory)
        = memory_statistics.total_memory

\* free_memory has wrapped below zero, so the sum holds only modulo 2^32
C9_Witness ==
    /\ ret.op = "memory_alloc"
    /\ ret.val # NULL
    /\ memory_statistics.free_memory < 0

\* C10: between allocator calls no two neighbours of the block list are both free.
C10_NoAdjacentFree ==
    LET l == BlockList(HeapState)
    IN  \A i \in 1..(Len(l) - 1) : ~(blocks[l[i]].is_free /\ blocks[l[i + 1]].is_free)

\* a free whose previous and next neighbours were both free: three blocks became one
C10_Witness ==
    /\ ret.op = "memory_free"
    /\ Len(BlockList(HeapState)) = ret.nblocks0 - 2

\* the payload [ptr, ptr + block size) of an allocation
PayloadEnd(ptr) == ptr + blocks[ptr - SIZEOF_memory_block_t].size

\* do the address ranges [a1, b1) and [a2, b2) share a byte?
Overlap(a1, b1, a2, b2) == a1 < b2 /\ a2 < b1

\* C11: every pointer handed out and not yet freed designates a live block of
\* the list; the payloads of two such allocations are disjoint, and no payload
\* overlaps the header of a block of the list.
C11_LivePayloadsDisjoint ==
    LET l == Range(BlockList(HeapState))
    IN  /\ \A p \in user_ptrs :
               /\ (p - SIZEOF_memory_block_t) \in l
               /\ ~blocks[p - SIZEOF_memory_block_t].is_free
        /\ \A p, q \in user_ptrs :
               p # q => ~Overlap(p, PayloadEnd(p), q, PayloadEnd(q))
        /\ \A p \in user_ptrs : \A b \in l :
               ~Overlap(p, PayloadEnd(p), b, b + SIZEOF_memory_block_t)

\* an allocation has just been placed in a freed block that lies before
\* another live allocation
C11_Witness ==
    /\ ret.op = "memory_alloc"
    /\ ret.val \in user_ptrs
    /\ Cardinality(user_ptrs) = 2
    /\ stale_ptrs = {}
    /\ \E q \in user_ptrs : ret.val < q
    /\ Len(BlockList(HeapState)) >= 3

\* the heap after the step
HeapStateNext == HeapState'

\* the blocks of the list of H that are free
FreeBlocks(H) == {b \in Range(BlockList(H)) : H.blocks[b].is_free}

\* the step is a memory_free call of a live block
FreesLiveBlock ==
    /\ ret'.op = "memory_free"
    /\ FreeAccepted(HeapState, ret'.arg)

\* C12: memory_free of a live block of payload b lying between a free
\* predecessor of payload a and a free successor of payload c leaves one free
\* block in their place, at the predecessor's address, of payload
\* a + b + c + 2 * header size, and the list has two blocks fewer.
C12_FreeBetweenFreeMergesThree ==
    [][LET block == ret'.arg - SIZEOF_memory_block_t
           prv == blocks[block].prev
           nxt == blocks[block].next
       IN  (/\ FreesLiveBlock
            /\ prv # NULL /\ blocks[prv].is_free
            /\ nxt # NULL /\ blocks[nxt].is_free) =>
               /\ Range(BlockList(HeapStateNext))
                      = Range(BlockList(HeapState)) \ {block, nxt}
               /\ Len(BlockList(HeapStateNext)) = Len(BlockList(HeapState)) - 2
               /\ blocks'[prv].is_free
               /\ blocks'[prv].size = blocks[prv].size + blocks[block].size
                                        + blocks[nxt].size + 2 * SIZEOF_memory_block_t
               /\ blocks'[prv].next = blocks[nxt].next
               /\ FreeBlocks(HeapStateNext)
                      = (FreeBlocks(HeapState) \ {nxt})]_vars

\* a memory_free has just merged three blocks: the list is two blocks
\* shorter and the freed header lies inside the payload of a free block
C12_Witness ==
    /\ ret.op = "memory_free"
    /\ Len(BlockList(HeapState)) = ret.nblocks0 - 2
    /\ \E b \in FreeBlocks(HeapState) :
           /\ b < ret.arg - SIZEOF_memory_block_t
           /\ ret.arg <= b + SIZEOF_memory_block_t + blocks[b].size

\* the scenario of C13 on an arena of 1024 bytes
ScenarioFreeFirstOfTwo ==
    LET H0 == heap_init(heap_memory, 1024)
        a1 == memory_alloc(H0, 100)
        a2 == memory_alloc(a1.H, 200)
    IN  memory_free(a2.H, a1.ptr)

\* C13: memory_free of a live block whose list neighbours are live or absent
\* only flips that block to free: the list keeps its blocks and their sizes,
\* and the free blocks are the former ones plus the freed one.  On an arena of
\* 1024 bytes, alloc(100), alloc(200), free(first) leaves exactly 2 free blocks.
C13_FreeBetweenLiveOnlyFlips ==
    [][/\ LET block == ret'.arg - SIZEOF_memory_block_t
               prv == blocks[block].prev
               nxt == blocks[block].next
           IN  (/\ FreesLiveBlock
                /\ prv = NULL \/ ~blocks[prv].is_free
                /\ nxt = NULL \/ ~blocks[nxt].is_free) =>
                   /\ BlockList(HeapStateNext) = BlockList(HeapState)
                   /\ \A b \in Range(BlockList(HeapState)) :
                          blocks'[b].size = blocks[b].size
                   /\ block \notin FreeBlocks(HeapState)
                   /\ FreeBlocks(HeapStateNext) = FreeBlocks(HeapState) \cup {block}
       /\ Cardinality(FreeBlocks(ScenarioFreeFirstOfTwo)) = 2
       /\ Len(BlockList(ScenarioFreeFirstOfTwo)) = 3]_vars

\* the first of two allocations has just been freed: the list keeps its three
\* blocks, the freed one and the tail remainder are free, the second is live
C13_Witness ==
    LET block == ret.arg - SIZEOF_memory_block_t
    IN  /\ ret.op = "memory_free"
        /\ ret.arg # NULL
        /\ Len(BlockList(HeapState)) = ret.nblocks0
        /\ block = heap_head
        /\ block \in FreeBlocks(HeapState)
        /\ blocks[block].next # NULL
        /\ ~blocks[blocks[block].next].is_free
        /\ Cardinality(FreeBlocks(HeapState)) = 2

\* n rounded up to a multiple of 8
RoundUp8(n) == ((n + 7) \div 8) * 8

\* the free blocks of the list whose payload holds n bytes
Fitting(H, n) == {b \in FreeBlocks(H) : H.blocks[b].size >= n}

\* the lowest address of a non-empty set of addresses
Lowest(A) == CHOOSE a \in A : \A b \in A : a <= b

\* C14: for a request of 1..arena size bytes memory_alloc returns the payload
\* of the lowest-address free block whose payload is >= the size rounded up
\* to a multiple of 8; it splits that block into a live block of the rounded
\* size followed by a new free block iff the payload exceeds rounded size +
\* header size + 8; it returns NULL iff no free block fits, and then the
\* block list is unchanged.
C14_FirstFitAndSplit ==
    [][(/\ ret'.op = "memory_alloc"
        /\ ret'.arg >= 1 /\ ret'.arg <= HEAP_SIZE) =>
          LET size == RoundUp8(ret'.arg)
              fit == Fitting(HeapState, size)
          IN  /\ (ret'.val = NULL) <=> (fit = {})
              /\ fit = {} =>
                     /\ BlockList(HeapStateNext) = BlockList(HeapState)
                     /\ \A b \in Range(BlockList(HeapState)) : blocks'[b] = blocks[b]
              /\ fit # {} =>
                     LET b == Lowest(fit)
                         split == blocks[b].size > size + SIZEOF_memory_block_t + 8
                         rest == b + SIZEOF_memory_block_t + size
                     IN  /\ ret'.val = b + SIZEOF_memory_block_t
                         /\ ~blocks'[b].is_free
                         /\ split =>
                                /\ blocks'[b].size = size
                                /\ blocks'[b].next = rest
                                /\ blocks'[rest].is_free
                                /\ blocks'[rest].size
                                       = blocks[b].size - size - SIZEOF_memory_block_t
                                /\ blocks'[rest].next = blocks[b].next
                                /\ Len(BlockList(HeapStateNext))
                                       = Len(BlockList(HeapState)) + 1
                         /\ ~split =>
                                /\ blocks'[b].size = blocks[b].size
                                /\ BlockList(HeapStateNext) = BlockList(HeapState)]_vars

\* an allocation has just taken, without a split, a freed block larger than
\* the rounded request, while a free block lies at a higher address
C14_Witness ==
    /\ ret.op = "memory_alloc"
    /\ ret.val # NULL
    /\ Len(BlockList(HeapState)) = ret.nblocks0
    /\ blocks[ret.val - SIZEOF_memory_block_t].size > RoundUp8(ret.arg)
    /\ \E b \in FreeBlocks(HeapState) : b > ret.val

\* the header before ptr carries the live tag
LiveTag(H, ptr) ==
    /\ (ptr - SIZEOF_memory_block_t) \in DOMAIN H.blocks
    /\ H.blocks[ptr - SIZEOF_memory_block_t].magic = MEMORY_BLOCK_MAGIC

\* the step leaves the block list, its blocks and the statistics as they were
HeapUnchanged ==
    /\ heap_head' = heap_head
    /\ BlockList(HeapStateNext) = BlockList(HeapState)
    /\ \A b \in Range(BlockList(HeapState)) : blocks'[b] = blocks[b]
    /\ memory_statistics' = memory_statistics

\* C15: memory_free of NULL, of a pointer whose header does not carry the
\* live tag, or of a pointer to an already freed block (still a block of the
\* list or absorbed into a free neighbour) changes neither the block list nor
\* the statistics.
C15_InvalidFreeIsNoOp ==
    [][(/\ ret'.op = "memory_free"
        /\ \/ ret'.arg = NULL
           \/ ~LiveTag(HeapState, ret'.arg)
           \/ ret'.arg \in stale_ptrs) => HeapUnchanged]_vars

\* a second memory_free of a pointer whose block was absorbed into a free
\* neighbour has just returned
C15_Witness ==
    /\ ret.op = "memory_free"
    /\ ret.arg \in stale_ptrs
    /\ (ret.arg - SIZEOF_memory_block_t) \notin Range(BlockList(HeapState))
    /\ Len(BlockList(HeapState)) = ret.nblocks0
    /\ user_ptrs # {}

\* C16: memory_realloc(ptr, n) of a live block with n > 0 returns ptr and
\* changes no heap state when n <= the block's payload; when n > the payload
\* it never returns ptr: it returns NULL, the heap unchanged and the block
\* still live, iff no free block fits, and otherwise a pointer to another live
\* block of at least n bytes, the old block's memory being free afterwards.
C16_ReallocFitsOrMoves ==
    [][(/\ ret'.op = "memory_realloc"
        /\ ret'.arg # NULL
        /\ ret'.size > 0
        /\ FreeAccepted(HeapState, ret'.arg)) =>
          LET old == ret'.arg - SIZEOF_memory_block_t
              n == ret'.size
          IN  /\ n <= blocks[old].size =>
                     /\ ret'.val = ret'.arg
                     /\ HeapUnchanged
              /\ n > blocks[old].size =>
                     /\ ret'.val # ret'.arg
                     /\ (ret'.val = NULL) <=> (Fitting(HeapState, RoundUp8(n)) = {})
                     /\ ret'.val = NULL =>
                            /\ HeapUnchanged
                            /\ ~blocks'[old].is_free
                     /\ ret'.val # NULL =>
                            /\ InFreeMemory(HeapStateNext, old)
                            /\ (ret'.val - SIZEOF_memory_block_t)
                                   \in Range(BlockList(HeapStateNext))
                            /\ ~blocks'[ret'.val - SIZEOF_memory_block_t].is_free
                            /\ blocks'[ret'.val - SIZEOF_memory_block_t].size >= n]_vars

\* a growing memory_realloc has just moved the data into the block that
\* followed the old one: that block was free and large enough, and the old
\* block was freed rather than grown
C16_Witness ==
    LET old == ret.arg - SIZEOF_memory_block_t
    IN  /\ ret.op = "memory_realloc"
        /\ ret.arg # NULL
        /\ ret.val # NULL
        /\ old \in FreeBlocks(HeapState)
        /\ ret.size > blocks[old].size
        /\ ret.val = ret.arg + blocks[old].size + SIZEOF_memory_block_t

(***************************************************************************)
(* Properties of process creation and termination                          *)
(***************************************************************************)
\* the step leaves the scheduler's data and the heap's block list as they were
SchedulerAndBlocksUnchanged ==
    /\ pcb' = pcb
    /\ process_list_head' = process_list_head
    /\ current_process' = current_process
    /\ next_process_id' = next_process_id
    /\ scheduler_statistics' = scheduler_statistics
    /\ heap_head' = heap_head
    /\ BlockList(HeapStateNext) = BlockList(HeapState)
    /\ \A b \in Range(BlockList(HeapState)) :
           /\ blocks'[b].size = blocks[b].size
           /\ blocks'[b].is_free = blocks[b].is_free

\* no free block holds the stack once the PCB has been allocated
StackWouldNotFit(n) ==
    LET a1 == memory_alloc(HeapState, SIZEOF_process_control_block_t)
    IN  a1.ptr # NULL /\ Fitting(a1.H, RoundUp8(n)) = {}

\* C17: process_create fails, returning 0, on a null name or entry point
\* (ret.arg = NULL), a stack size below 512, a failed PCB allocation or a
\* failed stack allocation; whenever it returns 0 the process list, the next
\* process id, the scheduler statistics and the heap's block list (boundaries
\* and free flags) are what they were before the call.
C17_FailedCreateChangesNothing ==
    [][ret'.op = "process_create" =>
          /\ (\/ ret'.arg = NULL
              \/ ret'.stack_size < MIN_STACK_SIZE
              \/ Fitting(HeapState, SIZEOF_process_control_block_t) = {}
              \/ StackWouldNotFit(ret'.stack_size)) <=> (ret'.val = 0)
          /\ ret'.val = 0 => SchedulerAndBlocksUnchanged]_vars

\* a process_create with valid arguments has just failed on its stack
\* allocation: the PCB would still fit, the stack would not
C17_Witness ==
    /\ ret.op = "process_create"
    /\ ret.val = 0
    /\ ret.arg # NULL
    /\ ret.stack_size >= MIN_STACK_SIZE
    /\ Fitting(HeapState, SIZEOF_process_control_block_t) # {}
    /\ StackWouldNotFit(ret.stack_size)

\* the idle PCB is in the process list with id 0 and the lowest priority
IdleInList ==
    LET l == Range(ProcList(SchedState))
    IN  /\ idle_pcb \in l
        /\ pcb[idle_pcb].process_id = IDLE_PROCESS_ID
        /\ pcb[idle_pcb].priority = PRIORITY_IDLE
        /\ \A a \in l : pcb[a].priority >= pcb[idle_pcb].priority

\* C18: in every state after scheduler_init the idle PCB (id 0, lowest
\* priority) is a member of the process list; process_terminate(0) returns
\* the invalid-parameter status and changes no state; and when
\* scheduler_preempt, started and unlocked, finds no PCB other than the idle
\* one Ready, it makes the idle PCB the running process.
C18_IdleAlwaysThere ==
    /\ []IdleInList
    /\ [][/\ (ret'.op = "process_terminate" /\ ret'.arg = IDLE_PROCESS_ID) =>
                 /\ ret'.val = KERNEL_ERROR_INVALID_PARAM
                 /\ UNCHANGED <<heapvars, uservars, schedvars>>
          /\ (ret'.preempts = 1 /\ ret'.enabled /\ ret'.ready \subseteq {idle_pcb}) =>
                 /\ current_process' = idle_pcb
                 /\ pcb'[idle_pcb].state = PROCESS_STATE_RUNNING]_vars

\* a running process has just yielded with only the idle PCB Ready, and the
\* idle PCB was made the running process
C18_Witness ==
    /\ ret.op = "scheduler_yield"
    /\ PreemptSwitched
    /\ ret.ready = {idle_pcb}
    /\ current_process = idle_pcb
    /\ Len(ProcList(SchedState)) >= 2

\* C19: while the scheduler lock is set a scheduler_tick call changes no
\* scheduler state: current_process, every PCB (state, time_remaining,
\* total_runtime and the rest), the process list and the statistics with the
\* context-switch counter are after the call what they were before it.
C19_LockedTickChangesNothing ==
    [][(ret'.op = "scheduler_tick" /\ scheduler_locked) =>
          /\ UNCHANGED schedvars
          /\ ret'.preempts = 0]_vars

\* a tick has just been handled under the lock while the running process
\* had one tick of its quantum left and another PCB was Ready
C19_Witness ==
    /\ ret.op = "scheduler_tick"
    /\ scheduler_running
    /\ scheduler_locked
    /\ current_process # NULL
    /\ pcb[current_process].time_remaining = 1
    /\ pcb[current_process].total_runtime = DEFAULT_TIME_SLICE_MS - 1
    /\ ReadySet(SchedState) # {}


(***************************************************************************)
(* Properties of the interrupt descriptors                                 *)
(***************************************************************************)
\* The vectors a driver has registered a handler for.
RegisteredIrqs == {irq \in Irqs : registered[irq].set}

\* Claim C20 as stated: a descriptor a handler was registered for holds the
\* handler, the priority and the name given to interrupt_register, whatever
\* interrupt_disable and interrupt_enable calls followed.
C20_DescriptorHoldsGivenName ==
    \A irq \in RegisteredIrqs :
        /\ interrupt_table[irq].handler = registered[irq].handler
        /\ interrupt_table[irq].priority = registered[irq].priority
        /\ registered[irq].name # NULL =>
               interrupt_table[irq].name = CString(registered[irq].name)

\* Claim C20, amended: for every vector irq of the table a handler h was
\* registered for with priority p, the descriptor holds h, p and the first
\* sizeof(name) - 1 characters of the name when one was given, whatever
\* interrupt_disable and interrupt_enable calls followed;
\* enabled is false after interrupt_disable(irq) and true after
\* interrupt_enable(irq); a dispatch of irq through interrupt_common_handler
\* invokes h.
C20_DisableKeepsDescriptor ==
    \A irq \in RegisteredIrqs :
        /\ interrupt_table[irq].handler = registered[irq].handler
        /\ interrupt_table[irq].priority = registered[irq].priority
        /\ registered[irq].name # NULL =>
               interrupt_table[irq].name = strncpy_name(CString(registered[irq].name))
        /\ ret.op = "interrupt_disable" /\ ret.arg = irq =>
               ~interrupt_table[irq].enabled
        /\ ret.op = "interrupt_enable" /\ ret.arg = irq =>
               interrupt_table[irq].enabled
        /\ ret.op = "interrupt_common_handler" /\ ret.arg = irq =>
               ret.invoked = registered[irq].handler

\* A handler registered under a name of sizeof(name) characters, its vector
\* disabled and enabled again, and an interrupt of it dispatched.
C20_Witness ==
    \E irq \in RegisteredIrqs :
        /\ registered[irq].disabled
        /\ registered[irq].handler # default_irq_handler
        /\ registered[irq].name # NULL
        /\ Len(CString(registered[irq].name)) = SIZEOF_name
        /\ ret.op = "interrupt_common_handler"
        /\ ret.arg = irq
        /\ ret.invoked = registered[irq].handler
        /\ interrupt_table[irq].enabled

(***************************************************************************)
(* Properties of the registration of handlers and of the system calls      *)
(***************************************************************************)
\* Claim C21: interrupt_register with a null handler or a vector >=
\* IRQ_MAX_COUNT, and syscall_register with a null handler or a number >=
\* SYSCALL_MAX_COUNT, return KERNEL_ERROR_INVALID_PARAM and leave every
\* interrupt descriptor and every slot of the system-call table unchanged.
C21_InvalidRegistrationRejected ==
    [][/\ (/\ ret'.op = "interrupt_register"
            /\ (ret'.arg >= IRQ_MAX_COUNT \/ ret'.handler = NULL))
           => /\ ret'.val = KERNEL_ERROR_INVALID_PARAM
              /\ UNCHANGED <<interrupt_table, syscall_table>>
       /\ (/\ ret'.op = "syscall_register"
            /\ (ret'.arg >= SYSCALL_MAX_COUNT \/ ret'.handler = NULL))
           => /\ ret'.val = KERNEL_ERROR_INVALID_PARAM
              /\ UNCHANGED <<interrupt_table, syscall_table>>]_vars

\* A registration rejected after handlers were bound to a vector and to a
\* system call.
C21_Witness ==
    /\ ret.op \in {"interrupt_register", "syscall_register"}
    /\ ret.handler = NULL \/ ret.arg >= SYSCALL_MAX_COUNT
    /\ ret.val = KERNEL_ERROR_INVALID_PARAM
    /\ RegisteredIrqs # {}
    /\ syscall_table # syscalls_init

\* Claim C22: each dispatch of a valid vector through interrupt_common_handler
\* increases total_interrupts by exactly one and the vector's hit counter by
\* exactly one, whether its handler is a registered one or the default one.
C22_DispatchCountsOnce ==
    [][ret'.op = "interrupt_common_handler" /\ ret'.arg \in Irqs
          => /\ interrupt_statistics'.total_interrupts =
                    Add32(interrupt_statistics.total_interrupts, 1)
             /\ interrupt_table'[ret'.arg].count =
                    Add32(interrupt_table[ret'.arg].count, 1)]_vars

\* Claim C23: a software trap whose call number is out of range or has no
\* bound handler makes svc_handler write 0xFFFFFFFF into the caller's return
\* slot, invoke no handler, and leave the process list, the running process,
\* every PCB and the heap block list unchanged; so does syscall_invoke with a
\* number out of range, as its return value.
C23_InvalidTrapChangesNothing ==
    [][(\/ /\ ret'.op = "svc_handler"
           /\ (ret'.arg >= SYSCALL_MAX_COUNT \/ syscall_table[ret'.arg] = NULL)
        \/ /\ ret'.op = "syscall_invoke"
           /\ ret'.arg >= SYSCALL_MAX_COUNT)
          => /\ ret'.val = SYSCALL_INVALID
             /\ ret'.invoked = NULL
             /\ UNCHANGED <<schedvars, heap_head, blocks>>]_vars

\* A trap with a number beyond the table, taken while a caller holds memory
\* an earlier system call allocated.
C23_Witness ==
    /\ ret.op = "svc_handler"
    /\ ret.arg >= SYSCALL_MAX_COUNT
    /\ ret.val = SYSCALL_INVALID
    /\ ret.invoked = NULL
    /\ user_ptrs # {}

\* Claim C24: for every system-call number n bound to a handler f,
\* syscall_invoke(n, a1, a2, a3, a4) invokes f with the caller's four
\* arguments and returns f(a1, a2, a3, a4) to its caller.
C24_InvokeReturnsHandlerResult ==
    [][(/\ ret'.op = "syscall_invoke"
        /\ ret'.arg < SYSCALL_MAX_COUNT
        /\ syscall_table[ret'.arg] # NULL)
          => /\ ret'.invoked = syscall_table[ret'.arg]
             /\ ret'.val =
                    CallHandler(syscall_table[ret'.arg], KernelState, ret'.args).result]_vars

(***************************************************************************)
(* Properties of the boot sequence                                         *)
(***************************************************************************)
IsPrefix(a, b) == Len(a) <= Len(b) /\ a = SubSeq(b, 1, Len(a))

\* the initialisation functions that have been called
Called == Range(boot_log)

\* Claim C25: kernel_init calls hardware, clocks, timers, memory_init,
\* interrupt_init, syscalls_init, scheduler_init in this order, each only
\* after every earlier one returned success; when a step fails no later step
\* runs, kernel_init returns its status and the system state is the error
\* state; scheduler_start runs only through kernel_start, after kernel_init
\* succeeded.
C25_BootOrderAndAbort ==
    /\ IsPrefix(boot_log, BootOrder)
    /\ ret.op \in Range(BootOrder) => ret.val = KERNEL_OK
    /\ "memory_init" \notin Called => heap_head = NULL
    /\ "interrupt_init" \notin Called =>
           \A irq \in Irqs : interrupt_table[irq].handler = NULL
    /\ "syscalls_init" \notin Called =>
           \A n \in DOMAIN syscall_table : syscall_table[n] = NULL
    /\ "scheduler_init" \notin Called => process_list_head = NULL
    /\ (ret.op = "kernel_init" /\ ret.val # KERNEL_OK) =>
           /\ boot_pc = "halted"
           /\ system_info_state = SYSTEM_STATE_ERROR
           /\ boot_log # BootOrder
    /\ boot_error_flag => boot_pc = "halted" /\ ret.op = "kernel_init"
    /\ system_info_state \in {SYSTEM_STATE_INIT, SYSTEM_STATE_RUNNING} =>
           boot_log = BootOrder
    /\ scheduler_running =>
           /\ system_info_state = SYSTEM_STATE_RUNNING
           /\ ret.op = "kernel_start"
           /\ ret.val = KERNEL_OK

\* kernel_init has stopped at a failing boot_init_clocks.
C25_Witness ==
    /\ boot_pc = "halted"
    /\ ret.op = "kernel_init"
    /\ ret.val = KERNEL_ERROR_TIMEOUT
    /\ boot_log = SubSeq(BootOrder, 1, 2)
    /\ system_info_state = SYSTEM_STATE_ERROR

\* the polling loops of boot_init_clocks that have ended
PollsOver ==
    {i \in 1..Len(ClockPolls) :
        boot_pc \notin {"boot_init_hardware", "boot_init_clocks"}
                         \cup {ClockPolls[j] : j \in 1..i}}

\* Claim C26: when a clock ready flag polled by boot_init_clocks is never set,
\* the polling loop ends, boot_init_clocks returns KERNEL_ERROR_TIMEOUT and
\* kernel_init stops in the error state without running memory_init or any
\* later step.
C26_TimeoutStopsBoot ==
    \A i \in PollsOver :
        ClockPolls[i] \notin rcc_ready =>
            /\ boot_pc = "halted"
            /\ ret.op = "kernel_init"
            /\ ret.val = KERNEL_ERROR_TIMEOUT
            /\ system_info_state = SYSTEM_STATE_ERROR
            /\ "memory_init" \notin Called

(***************************************************************************)
(* Properties of the critical sections                                     *)
(***************************************************************************)
\* Claim C27: every write that changes the heap block list, the PCB list, an
\* interrupt descriptor or a slot of the system-call table is made while
\* interrupts are globally masked or while the scheduler lock is set.
C27_WritesAreMasked ==
    [][(\/ heap_head' # heap_head
        \/ blocks' # blocks
        \/ pcb' # pcb
        \/ process_list_head' # process_list_head
        \/ interrupt_table' # interrupt_table
        \/ syscall_table' # syscall_table)
          => ret'.masked \/ scheduler_locked]_vars

(***************************************************************************)
(* Properties of the quantum and of the stacks                             *)
(***************************************************************************)
QuantumInRange ==
    \A a \in DOMAIN pcb :
        /\ pcb[a].time_remaining >= 0
        /\ ULe(pcb[a].time_remaining, pcb[a].time_slice)

\* Claim C28: for every PCB in every reachable state, 0 <= time_remaining <=
\* time_slice (scheduler_tick never decrements a remaining quantum that is
\* zero), and every transition of a PCB to Running made by scheduler_preempt
\* sets its time_remaining to its time_slice.
C28_QuantumBounded ==
    /\ []QuantumInRange
    /\ [][\A a \in DOMAIN pcb' :
              (/\ ret'.preempts > 0
               /\ pcb'[a].state = PROCESS_STATE_RUNNING
               /\ a \in DOMAIN pcb => pcb[a].state # PROCESS_STATE_RUNNING)
                 => pcb'[a].time_remaining = pcb'[a].time_slice]_vars

\* A tick that found the remaining quantum zero, so that it decremented
\* nothing, and whose scheduler_preempt switched to another process.
C28_Witness ==
    /\ ret.op = "scheduler_tick"
    /\ ret.preempts = 1
    /\ ret.prev # NULL
    /\ ret.prev \in DOMAIN pcb
    /\ pcb[ret.prev].total_runtime = 0
    /\ current_process # NULL
    /\ current_process # ret.prev
    /\ pcb[current_process].state = PROCESS_STATE_RUNNING
    /\ pcb[current_process].time_remaining = pcb[current_process].time_slice


\* the PCBs of the process list whose stack was allocated by process_create
CreatedInList == {a \in Range(ProcList(SchedState)) : pcb[a].process_id # IDLE_PROCESS_ID}

\* the stack of PCB a is the whole payload of one live block of the heap
StackIsLive(a) ==
    LET b == pcb[a].stack_base - SIZEOF_memory_block_t
    IN  /\ b \in Range(BlockList(HeapState))
        /\ ~blocks[b].is_free
        /\ blocks[b].magic = MEMORY_BLOCK_MAGIC
        /\ ULe(pcb[a].stack_size, blocks[b].size)

\* the stacks of PCBs a and b share no byte
StacksApart(a, b) ==
    \/ pcb[a].stack_base + pcb[a].stack_size <= pcb[b].stack_base
    \/ pcb[b].stack_base + pcb[b].stack_size <= pcb[a].stack_base

StacksOwned ==
    /\ \A a \in CreatedInList : StackIsLive(a)
    /\ \A a, b \in Range(ProcList(SchedState)) : a # b => StacksApart(a, b)

\* C29: the stack of every created PCB of the process list is a live heap
\* block that overlaps no other PCB's stack; the process_terminate call that
\* removes a PCB returns its stack to free memory; a process_terminate with an
\* id that is not in the list (one terminated before, or never issued) returns
\* KERNEL_ERROR_INVALID_PARAM and leaves the heap and the process list as they were.
C29_StackFreedOnce ==
    /\ []StacksOwned
    /\ [][ret'.op = "process_terminate" =>
            LET p == process_get_by_id(SchedState, ret'.arg)
            IN  IF p = NULL
                THEN /\ ret'.val = KERNEL_ERROR_INVALID_PARAM
                     /\ HeapUnchanged
                     /\ ProcList(SchedState)' = ProcList(SchedState)
                ELSE ret'.val = KERNEL_OK =>
                     /\ p \notin Range(ProcList(SchedState))'
                     /\ InFreeMemory(HeapStateNext, pcb[p].stack_base - SIZEOF_memory_block_t)]_vars

\* process_terminate was called a second time with an id process_create had
\* issued and an earlier process_terminate had removed, while another created
\* process lives on with its stack
C29_Witness ==
    /\ ret.op = "process_terminate"
    /\ ret.val = KERNEL_ERROR_INVALID_PARAM
    /\ ret.arg >= 1
    /\ ret.arg < next_process_id
    /\ process_get_by_id(SchedState, ret.arg) = NULL
    /\ CreatedInList # {}


(***************************************************************************)
(* Properties of the process system calls                                  *)
(***************************************************************************)
\* C30: the create-process handler, trapped with a non-zero entry point, a
\* stack size >= 512 and enough heap for process_create to succeed, adds a
\* Ready PCB and returns its non-zero id, leaving the scheduler as
\* process_create would; the terminate-process handler, trapped with the id of
\* a non-idle process of the list, removes that PCB and returns 0, leaving
\* the scheduler as process_terminate would.
C30_ProcessCallsActLikeDirect ==
    [][(ret'.op = "svc_handler" /\ ret'.invoked # NULL) =>
         /\ ret'.invoked = syscall_handlers[SYSCALL_PROCESS_CREATE] =>
              LET d == process_create(SchedState, HeapState, 1, ret'.args[1],
                                      ret'.args[2], ret'.args[3])
              IN  (ret'.args[1] # 0 /\ UGe(ret'.args[2], 512) /\ d.id # 0) =>
                     /\ ret'.result = d.id
                     /\ SchedState' = d.S
                     /\ \E a \in DOMAIN pcb' \ DOMAIN pcb :
                            /\ pcb'[a].process_id = ret'.result
                            /\ pcb'[a].state = PROCESS_STATE_READY
         /\ ret'.invoked = syscall_handlers[SYSCALL_PROCESS_TERMINATE] =>
              LET p == process_get_by_id(SchedState, ret'.args[1])
                  d == process_terminate(SchedState, HeapState, ret'.args[1])
              IN  (p # NULL /\ ret'.args[1] # IDLE_PROCESS_ID) =>
                     /\ ret'.result = KERNEL_OK
                     /\ SchedState' = d.S
                     /\ p \notin DOMAIN pcb']_vars


(***************************************************************************)
(* Properties of the nested critical sections                              *)
(***************************************************************************)
RegisterCalls == {"interrupt_register", "interrupt_unregister",
                  "interrupt_set_priority", "syscall_register"}

\* kernel_exit_critical at counter zero changes nothing; above zero it
\* decrements the counter and unmasks interrupts only when it reaches zero
ExitUnmasksAtZero ==
    ret'.op = "kernel_exit_critical" =>
        IF critical_nesting = 0
        THEN UNCHANGED <<primask, critical_nesting>>
        ELSE /\ critical_nesting' = critical_nesting - 1
             /\ primask' = (IF critical_nesting' = 0 THEN FALSE ELSE primask)

\* C31 as stated: interrupts are masked whenever critical_nesting is above
\* zero; kernel_exit_critical unmasks them only when the counter returns to
\* zero and changes nothing at counter zero; interrupt_register,
\* interrupt_unregister, interrupt_set_priority and syscall_register called
\* inside a critical section return with interrupts masked.
C31_MaskedWhileNested ==
    /\ [](critical_nesting > 0 => primask)
    /\ [][/\ ExitUnmasksAtZero
          /\ (ret'.op \in RegisterCalls /\ critical_nesting > 0) =>
                 (primask' /\ critical_nesting' = critical_nesting)]_vars

\* C31, amended: interrupt_global_enable is the only call that unmasks
\* interrupts while critical_nesting is above zero.  Every other call that
\* starts with interrupts masked or outside every critical section leaves
\* them masked when it ends inside one; kernel_exit_critical unmasks them only
\* when the counter returns to zero and changes nothing at counter zero; the
\* four registration calls made inside a critical section with interrupts
\* masked return with interrupts masked and the counter as it was.
C31_MaskedUnlessGloballyEnabled ==
    [][/\ ExitUnmasksAtZero
       /\ (ret'.op \in RegisterCalls /\ critical_nesting > 0 /\ primask) =>
              (primask' /\ critical_nesting' = critical_nesting)
       /\ (/\ ret'.op # "interrupt_global_enable"
           /\ critical_nesting' > 0
           /\ critical_nesting > 0 => primask) => primask']_vars

\* a handler was registered inside a critical section nested two deep and
\* interrupts are still masked
C31_Witness ==
    /\ ret.op = "interrupt_register"
    /\ ret.val = KERNEL_OK
    /\ critical_nesting = 2
    /\ primask


(***************************************************************************)
(* Properties of the scheduler under ticks arriving forever                *)
(***************************************************************************)
\* the PCBs of the process list holding the highest priority of the list
TopPcbs ==
    LET l == Range(ProcList(SchedState))
    IN  {a \in l : \A b \in l : pcb[b].priority <= pcb[a].priority}

\* the scheduler runs unlocked and process id is one of three or more PCBs
\* sharing the highest priority
SharesTop(id) ==
    /\ scheduler_running
    /\ ~scheduler_locked
    /\ Cardinality(TopPcbs) >= 3
    /\ \E a \in TopPcbs : pcb[a].process_id = id

IsRunning(id) ==
    /\ current_process # NULL
    /\ pcb[current_process].process_id = id
    /\ pcb[current_process].state = PROCESS_STATE_RUNNING

\* C32: with the scheduler started and unlocked and scheduler_tick occurring
\* forever, a process that from some point on is one of three or more
\* sharing the highest priority (nothing created, terminated or locked any
\* more) is Running infinitely often.
C32_EqualPriorityNotStarved ==
    \A id \in 1..MaxPeers : <>[]SharesTop(id) => []<>IsRunning(id)


SomeProcessRunning ==
    /\ current_process # NULL
    /\ pcb[current_process].state = PROCESS_STATE_RUNNING

\* C33: after the Running process was terminated with the scheduler lock set
\* (or after anything else), once the scheduler is running and stays unlocked
\* the ticks that keep arriving make some process Running again and again:
\* the system never stays forever without a current process.
C33_TicksRecoverCurrent ==
    <>[](scheduler_running /\ ~scheduler_locked) => []<>SomeProcessRunning


\* process id is in the list and its priority is strictly higher than that of
\* every other PCB of the list
StrictlyTop(id) ==
    LET l == Range(ProcList(SchedState))
    IN  \E a \in l : /\ pcb[a].process_id = id
                     /\ \A b \in l \ {a} : pcb[b].priority < pcb[a].priority

\* the scheduler runs unlocked and the strictly highest process id is not Running
Waiting(id) ==
    /\ scheduler_running
    /\ ~scheduler_locked
    /\ StrictlyTop(id)
    /\ ~IsRunning(id)

\* the scheduler_tick calls after which the running process has used up its
\* quantum and scheduler_preempt is called; none if there is no running process
TicksToPreempt ==
    IF current_process = NULL THEN DEFAULT_TIME_SLICE_MS + 1
    ELSE IF pcb[current_process].time_remaining = 0 THEN 1
    ELSE pcb[current_process].time_remaining

\* C34: when process_create has just succeeded for a process of strictly
\* highest priority, with the scheduler running and unlocked, at most
\* time_slice (10) ticks are left before scheduler_preempt is called; from
\* then on, as long as the scheduler stays unlocked and nothing is terminated,
\* every scheduler_tick either makes that process Running or leaves one tick
\* less to go, and a process_create leaves as many: the process is Running
\* after at most 10 further ticks.
C34_TopRunsWithinQuantum ==
    /\ [](\A id \in 1..MaxPeers :
             (ret.op = "process_create" /\ ret.val = id /\ Waiting(id))
                 => TicksToPreempt <= DEFAULT_TIME_SLICE_MS)
    /\ [][\A id \in 1..MaxPeers :
             (Waiting(id) /\ TicksToPreempt <= DEFAULT_TIME_SLICE_MS) =>
                 /\ ret'.op = "scheduler_tick" =>
                        \/ IsRunning(id)'
                        \/ Waiting(id)' /\ TicksToPreempt' = TicksToPreempt - 1
                 /\ ret'.op = "process_create" =>
                        TicksToPreempt' = TicksToPreempt]_vars


(***************************************************************************)
(* Properties of memory_alloc under interrupts                             *)
(***************************************************************************)
\* C35: when a memory_alloc call that was suspended between choosing its
\* block and marking it, while handlers called memory_alloc, has returned, its
\* pointer is none of those handed out before, the payloads of all live
\* allocations are disjoint, and the block list is contiguous.
C35_InterruptedAllocDisjoint ==
    [][(alloc_frame.active /\ ~alloc_frame'.active) =>
           /\ ret'.val \notin user_ptrs
           /\ C11_LivePayloadsDisjoint'
           /\ C8_ListContiguous']_vars


(***************************************************************************)
(* Properties of the nesting statistic                                     *)
(***************************************************************************)
\* The handlers of the model run to their end before the next one is
\* entered: the deepest nesting since interrupt_init is 1 once a dispatch
\* through interrupt_common_handler or a trap into svc_handler has counted,
\* and 0 before.
DeepestNesting ==
    IF \/ interrupt_statistics.total_interrupts # 0
       \/ interrupt_statistics.system_calls # 0
    THEN 1 ELSE 0

\* C36: max_nesting_level is the largest number of handlers that were active
\* at once since interrupt_init, dispatches through interrupt_common_handler
\* and activations of svc_handler alike: never below the current nesting
\* and never above the deepest nesting that occurred.
C36_MaxNestingIsDeepest ==
    /\ UGe(interrupt_statistics.max_nesting_level, interrupt_nesting_level)
    /\ interrupt_statistics.max_nesting_level = DeepestNesting


(***************************************************************************)
(* Properties of the free-memory statistic                                 *)
(***************************************************************************)
\* C37: free_memory never exceeds total_memory (as unsigned 32-bit counters),
\* and the subtraction memory_alloc makes takes no more than free_memory
\* holds, also when the allocation takes the last free block whole.
C37_FreeWithinTotal ==
    /\ [](ULe(memory_statistics.free_memory, memory_statistics.total_memory))
    /\ [][(ret'.op = "memory_alloc" /\ ret'.val # NULL) =>
             UGe(memory_statistics.free_memory,
                 Add32(blocks'[ret'.val - SIZEOF_memory_block_t].size,
                       SIZEOF_memory_block_t))]_vars


\* the payload bytes of the free blocks among the first n blocks of the list l
RECURSIVE FreePayload(_, _)
FreePayload(l, n) ==
    IF n = 0 THEN 0
    ELSE FreePayload(l, n - 1) + (IF blocks[l[n]].is_free THEN blocks[l[n]].size ELSE 0)

\* C38: after any sequence of allocations and frees free_memory is the sum
\* of the payload sizes of the free blocks of the heap.
C38_FreeIsFreePayload ==
    LET l == BlockList(HeapState)
    IN  ret.op \in {"kernel_init", "memory_alloc", "memory_free"} =>
            memory_statistics.free_memory = FreePayload(l, Len(l))


(***************************************************************************)
(* Properties of memory_alloc over the whole range of request sizes        *)
(***************************************************************************)
\* the largest payload among the free blocks, as an unsigned value; 0 if none
LargestFree ==
    LET free == {a \in DOMAIN blocks : blocks[a].is_free}
    IN  IF free = {} THEN 0
        ELSE blocks[CHOOSE a \in free :
                        \A b \in free : UGe(blocks[a].size, blocks[b].size)].size

\* C39: for every 32-bit request size, a non-null result of memory_alloc is
\* the payload of a live block of at least that many bytes, and a request
\* larger than the largest free block, up to 2^32 - 1, returns NULL.
C39_AllocHoldsRequest ==
    [][ret'.op = "memory_alloc" =>
          /\ ret'.val # NULL =>
                 /\ (ret'.val - SIZEOF_memory_block_t) \in DOMAIN blocks'
                 /\ ~blocks'[ret'.val - SIZEOF_memory_block_t].is_free
                 /\ UGe(blocks'[ret'.val - SIZEOF_memory_block_t].size, ret'.arg)
          /\ UGt(ret'.arg, LargestFree) => ret'.val = NULL]_vars


(***************************************************************************)
(* Properties of the capacity of the process table                         *)
(***************************************************************************)
\* the heap has a free block for a PCB and, after it, one for a smallest stack
RoomForProcess ==
    LET a1 == memory_alloc(HeapState, SIZEOF_process_control_block_t)
    IN  /\ a1.ptr # NULL
        /\ memory_alloc(a1.H, MIN_STACK_SIZE).ptr # NULL

\* C40: the process list never holds more than MAX_PROCESSES PCBs: once it
\* holds that many, process_create returns 0 even when the heap has room for
\* another PCB and stack.
C40_ListWithinCapacity ==
    /\ [](Len(ProcList(SchedState)) <= MAX_PROCESSES)
    /\ [][(/\ ret'.op = "process_create"
           /\ Len(ProcList(SchedState)) >= MAX_PROCESSES
           /\ RoomForProcess)
             => ret'.val = 0]_vars

====
